---------------------------- MODULE Spec2Model ----------------------------
(***************************************************************************)
(* Ultra-TM02 temperature transmitter: the command protocol (app_comm.c),  *)
(* the parameter store (app_param.c, bsp_flash.c), the acquisition         *)
(* pipeline (app_temp.c), the 4-20 mA output (app_output.c, svc_dac.c) and *)
(* the main loop (main.c), as one state machine.                           *)
(*                                                                         *)
(* Bytes are 0..255.  A float that is only copied, compared and stored     *)
(* (parameters, payloads) is its four IEEE-754 bytes, least significant    *)
(* first, as memcpy leaves them.  A float that is computed with (voltages, *)
(* temperatures, currents) is an integer number of hundredths, or NaN.     *)
(***************************************************************************)
EXTENDS Integers, Sequences, FiniteSets, TLC

(***************************************************************************)
(* Bounds of the model                                                     *)
(***************************************************************************)
\* host transmissions (frames or noise bursts) while the converter runs
MaxHostSends == 1
\* host transmissions in a conversation
MaxTalk == 2
\* frames echoed back in a loop-back test
MaxEcho == 1
\* acquisition cycles (sample_count) the converter completes
MaxCycles == 1
\* acquisition cycles while the probe voltage moves
MaxProbeCycles == 2
\* acquisition cycles, and host transmissions, while the host starts and stops
\* the acquisition
MaxPipeCycles == 2
MaxPipeSends == 2
\* acquisition cycles the converter answers before it stops answering
MaxLiveCycles == 3
\* calls of the receive callback while the ring is read
MaxRingCallbacks == 3
\* number of extra payload bytes a host frame may carry beyond the nominal length
MaxExtra == 1
\* host transmissions in a session on the parameter store
MaxStore == 3
\* host transmissions around a disturbance of the stored record
MaxUpset == 2

(***************************************************************************)
(* Program constants                                                       *)
(***************************************************************************)
FRAME_HEAD == 170
FRAME_TAIL == 85
MAX_DATA_LEN == 256
DEVICE_ID_LEN == 16
USB_RX_BUFFER_SIZE == 512

CMD_GET_DEVICE_ID == 1
CMD_GET_TEMPERATURE == 2
CMD_GET_VOLTAGE == 3
CMD_GET_CURRENT == 4
CMD_GET_STATUS == 5
CMD_SET_CURRENT_SRC == 16
CMD_SET_CURRENT_ADJ_10 == 17
CMD_SET_CURRENT_ADJ_17 == 18
CMD_SET_4MA_TEMP == 32
CMD_SET_20MA_TEMP == 33
CMD_START_ACQ == 48
CMD_STOP_ACQ == 49
CMD_LOAD_TABLE_START == 64
CMD_LOAD_TABLE_END == 66
CMD_SAVE_PARAM == 80
CMD_LOAD_PARAM == 81
CMD_RESET_DEFAULT == 82
CMD_ACK == 128
CMD_NACK == 129
CMD_DATA_REPORT == 240

STATUS_OK == 0
STATUS_INVALID_CMD == 1
STATUS_INVALID_PARAM == 2
STATUS_CRC_ERROR == 3
STATUS_FLASH_ERROR == 5

PARAM_VERSION == 256
PARAM_SIZE == 32
TEMP_SAMPLE_COUNT == 5
TEMP_FILTER_SIZE == 16
TEMP_TABLE_MAX_POINTS == 4871

Byte == 0..255

(***************************************************************************)
(* Bit arithmetic on naturals                                              *)
(***************************************************************************)
RECURSIVE XorBits(_, _)
XorBits(a, b) ==
    IF a = 0 THEN b
    ELSE IF b = 0 THEN a
    ELSE (((a % 2) + (b % 2)) % 2) + 2 * XorBits(a \div 2, b \div 2)

\* ^ on two 4-bit operands, tabulated
XorNibble == [a \in 0..15 |-> [b \in 0..15 |-> XorBits(a, b)]]

\* ^ on operands of up to 16 bits, four bits at a time
Xor(a, b) ==
    XorNibble[a % 16][b % 16]
    + 16 * XorNibble[(a \div 16) % 16][(b \div 16) % 16]
    + 256 * XorNibble[(a \div 256) % 16][(b \div 256) % 16]
    + 4096 * XorNibble[(a \div 4096) % 16][(b \div 4096) % 16]

RECURSIVE Pow2(_)
Pow2(n) == IF n = 0 THEN 1 ELSE 2 * Pow2(n - 1)

\* the element of a one-element set
The(S) == CHOOSE x \in S : TRUE

\* the 16-bit CRC register after n more shift steps of the inner loop
RECURSIVE CrcShift(_, _)
CrcShift(crc, n) ==
    IF n = 0 THEN crc
    ELSE IF crc % 2 = 1
    THEN CrcShift(Xor(crc \div 2, 40961), n - 1)
    ELSE CrcShift(crc \div 2, n - 1)

\* the outer loop over bytes lo..hi of data, from register value crc.  The range is
\* walked in halves, left half first, which is the loop's order; the test on the
\* left half's register (always 16 bits) only makes it be computed first.
RECURSIVE CrcRange(_, _, _, _)
CrcRange(crc, data, lo, hi) ==
    IF lo > hi THEN crc
    ELSE IF lo = hi THEN CrcShift(Xor(crc, data[lo]), 8)
    ELSE LET mid == (lo + hi) \div 2
             left == CrcRange(crc, data, lo, mid)
         IN  IF left < 65536 THEN CrcRange(left, data, mid + 1, hi) ELSE left

CrcFold(data) == CrcRange(65535, data, 1, Len(data))

\* APP_Comm_CRC16: reflected CRC-16, generator 0xA001, initial value 0xFFFF
APP_Comm_CRC16(data) == CrcFold(data)

\* CalcParamCRC runs the same loop over the first 28 bytes of the record
CalcParamCRCBytes(bytes) == CrcFold(SubSeq(bytes, 1, PARAM_SIZE - 4))

LE16(n) == <<n % 256, n \div 256>>

(***************************************************************************)
(* Floats as bytes: comparison as the FPU does it on the bit pattern       *)
(***************************************************************************)
F_ZERO == <<0, 0, 0, 0>>
F_ONE == <<0, 0, 128, 63>>
F_MINUS_ONE == <<0, 0, 128, 191>>
F_HALF == <<0, 0, 0, 63>>
F_TWO == <<0, 0, 0, 64>>
F_MINUS_TWO == <<0, 0, 0, 192>>
F_FIFTY == <<0, 0, 72, 66>>
F_HUNDRED == <<0, 0, 200, 66>>
F_MINUS_200 == <<0, 0, 72, 195>>
F_NAN == <<0, 0, 192, 127>>

\* the not-a-number of the computed floats: a value outside every range used
NaN == 0 - 2000000000
IsNaN(x) == x = NaN

FMag(f) == (f[4] % 128) * 16777216 + f[3] * 65536 + f[2] * 256 + f[1]
FIsNaN(f) == FMag(f) > 2139095040
FKey(f) == IF f[4] >= 128 THEN 0 - FMag(f) ELSE FMag(f)
\* a > b and a < b on floats: false as soon as one side is NaN
FGt(a, b) == ~FIsNaN(a) /\ ~FIsNaN(b) /\ FKey(a) > FKey(b)
FLt(a, b) == ~FIsNaN(a) /\ ~FIsNaN(b) /\ FKey(a) < FKey(b)

\* largest magnitude, in hundredths, a decoded float is given; beyond it saturates
FHuge == 500000

RoundDiv(x, d) ==
    LET q == x \div d
        r == x % d
    IN  IF 2 * r > d \/ (2 * r = d /\ q % 2 = 1) THEN q + 1 ELSE q

\* the value of a float, in hundredths (rounded to the nearest hundredth)
FloatToNum(f) ==
    IF FIsNaN(f) THEN NaN
    ELSE LET e == FMag(f) \div 8388608
             m == (FMag(f) % 8388608) + 8388608
             a == IF e = 0 THEN 0
                  ELSE IF e > 150 THEN FHuge
                  ELSE IF 150 - e > 30 THEN 0
                  ELSE RoundDiv(m * 100, Pow2(150 - e))
             c == IF a > FHuge THEN FHuge ELSE a
         IN  IF f[4] >= 128 THEN 0 - c ELSE c

RECURSIVE FNorm(_, _)
FNorm(x, k) == IF x >= 838860800 THEN <<x, k>> ELSE FNorm(2 * x, k + 1)

\* the float nearest to n hundredths, as its four bytes
NumToFloat(n) ==
    IF n = NaN THEN F_NAN
    ELSE IF n = 0 THEN F_ZERO
    ELSE LET a == IF n < 0 THEN 0 - n ELSE n
             nk == FNorm(a, 0)
             m0 == RoundDiv(nk[1], 100)
             m == IF m0 = 16777216 THEN 8388608 ELSE m0
             e == IF m0 = 16777216 THEN 151 - nk[2] ELSE 150 - nk[2]
             mant == m - 8388608
             s == IF n < 0 THEN 128 ELSE 0
         IN  <<mant % 256, (mant \div 256) % 256,
               (mant \div 65536) + (e % 2) * 128, (e \div 2) + s>>

(***************************************************************************)
(* UserParam_t and its 32-byte image                                       *)
(***************************************************************************)
PARAM_MAGIC == <<50, 80, 77, 84>>

DefaultParam ==
    [magic |-> PARAM_MAGIC, version |-> PARAM_VERSION, reserved |-> 0,
     current_source |-> 0, padding |-> <<0, 0, 0>>,
     current_adj_10uA |-> F_ZERO, current_adj_17uA |-> F_ZERO,
     temp_4mA |-> F_MINUS_200, temp_20mA |-> F_HUNDRED,
     crc |-> 0, padding2 |-> 0]

\* an image with the two set-points in each other's place
ParamBytesSpansSwapped(p) ==
    p.magic \o LE16(p.version) \o LE16(p.reserved) \o <<p.current_source>>
    \o p.padding \o p.current_adj_10uA \o p.current_adj_17uA
    \o p.temp_20mA \o p.temp_4mA \o LE16(p.crc) \o LE16(p.padding2)

\* the record as it lies in memory (what memcpy and the flash write see)
ParamBytes(p) ==
    p.magic \o LE16(p.version) \o LE16(p.reserved) \o <<p.current_source>>
    \o p.padding \o p.current_adj_10uA \o p.current_adj_17uA
    \o p.temp_4mA \o p.temp_20mA \o LE16(p.crc) \o LE16(p.padding2)

ParamFromBytes(b) ==
    [magic |-> SubSeq(b, 1, 4), version |-> b[5] + 256 * b[6],
     reserved |-> b[7] + 256 * b[8], current_source |-> b[9],
     padding |-> SubSeq(b, 10, 12),
     current_adj_10uA |-> SubSeq(b, 13, 16), current_adj_17uA |-> SubSeq(b, 17, 20),
     temp_4mA |-> SubSeq(b, 21, 24), temp_20mA |-> SubSeq(b, 25, 28),
     crc |-> b[29] + 256 * b[30], padding2 |-> b[31] + 256 * b[32]]

CalcParamCRC(p) == CalcParamCRCBytes(ParamBytes(p))

\* a verification of the header and the selector that skips the checksum
VerifyWithoutCrc(p) ==
    IF p.magic # PARAM_MAGIC THEN -1
    ELSE IF p.version > PARAM_VERSION THEN -1
    ELSE IF p.current_source > 1 THEN -1
    ELSE 0

\* VerifyParam: 0 = valid, -1 = invalid
VerifyParam(p) ==
    IF p.magic # PARAM_MAGIC THEN -1
    ELSE IF p.version > PARAM_VERSION THEN -1
    ELSE IF p.crc # CalcParamCRC(p) THEN -1
    ELSE IF p.current_source > 1 THEN -1
    ELSE 0

(***************************************************************************)
(* bsp_flash.c: the parameter sector.  s.flash is the first PARAM_SIZE     *)
(* bytes of the sector; s.flash_ops lists the erase and program operations *)
(* of the current step.                                                    *)
(***************************************************************************)
FLASH_BASE == 134217728
FLASH_TOP == 134742016
FLASH_PARAM_START == 134610944
FLASH_PARAM_END == 134742015

ErasedImage == [i \in 1..PARAM_SIZE |-> 255]

\* GetSector(addr) >= 0
GetSectorValid(addr) == addr >= FLASH_BASE /\ addr < FLASH_TOP

\* BSP_Flash_ReadParam: TRUE when it returns FLASH_OK
BSP_Flash_ReadParam_Ok(offset, len) ==
    /\ ~(FLASH_PARAM_START + offset + len > FLASH_PARAM_END)
    /\ GetSectorValid(FLASH_PARAM_START + offset)

\* BSP_Flash_EraseParam: the HAL erase either succeeds (sector all 0xFF) or reports
\* an error and leaves the sector as it was
BSP_Flash_EraseParam(s, fault) ==
    IF fault.kind = "erase"
    THEN [s EXCEPT !.flash_ops = Append(@, "erase")]
    ELSE [s EXCEPT !.flash = ErasedImage, !.flash_ops = Append(@, "erase")]

\* the image after the words before word k have been programmed
Programmed(old, data, k) ==
    [i \in 1..PARAM_SIZE |-> IF i <= 4 * k THEN data[i] ELSE old[i]]

\* BSP_Flash_WriteParam -> BSP_Flash_Write: word-wise program, then read-back verify.
\* fault.kind = "program": HAL_FLASH_Program fails at word fault.at;
\* fault.kind = "verify": every word reported OK but byte fault.at+1 reads back 0xFF.
BSP_Flash_WriteParam(s, data, fault) ==
    IF fault.kind = "program"
    THEN [s EXCEPT !.flash = Programmed(s.flash, data, fault.at),
                   !.flash_ops = Append(@, "program")]
    ELSE IF fault.kind = "verify"
    THEN [s EXCEPT !.flash = [data EXCEPT ![fault.at + 1] = 255],
                   !.flash_ops = Append(@, "program")]
    ELSE [s EXCEPT !.flash = data, !.flash_ops = Append(@, "program")]

\* a write that trusts the programming status and reads nothing back
WriteUnverified(s, data, fault) == fault.kind # "program"

BSP_Flash_WriteParam_Ok(s, data, fault) ==
    /\ fault.kind # "program"
    /\ \A i \in 1..PARAM_SIZE : BSP_Flash_WriteParam(s, data, fault).flash[i] = data[i]

(***************************************************************************)
(* app_param.c                                                             *)
(***************************************************************************)
\* APP_Param_Load returns 0
APP_Param_Load_Ok(s) ==
    /\ BSP_Flash_ReadParam_Ok(0, PARAM_SIZE)
    /\ VerifyParam(ParamFromBytes(s.flash)) = 0

\* a load that copies the stored record without verifying it
LoadUnchecked(s) == [s EXCEPT !.g_param = ParamFromBytes(s.flash)]

APP_Param_Load(s) ==
    IF APP_Param_Load_Ok(s)
    THEN [s EXCEPT !.g_param = ParamFromBytes(s.flash)]
    ELSE s

\* a reset that also clears the stored record
SetDefaultErasing(s) ==
    BSP_Flash_EraseParam(
        [s EXCEPT !.g_param = [DefaultParam EXCEPT !.crc = CalcParamCRC(DefaultParam)]],
        [kind |-> "none", at |-> 0])

\* a reset that keeps the checksum of the record it replaces
SetDefaultStaleCrc(s) == [s EXCEPT !.g_param = [DefaultParam EXCEPT !.crc = s.g_param.crc]]

APP_Param_SetDefault(s) ==
    LET p == [s.g_param EXCEPT !.magic = PARAM_MAGIC, !.version = PARAM_VERSION,
                               !.reserved = 0, !.current_source = 0,
                               !.current_adj_10uA = F_ZERO, !.current_adj_17uA = F_ZERO,
                               !.temp_4mA = F_MINUS_200, !.temp_20mA = F_HUNDRED]
    IN  [s EXCEPT !.g_param = [p EXCEPT !.crc = CalcParamCRC(p)]]

APP_Param_Init(s) ==
    IF APP_Param_Load_Ok(s) THEN APP_Param_Load(s) ELSE APP_Param_SetDefault(s)

\* APP_Param_Save: the state after the call ...
APP_Param_Save(s, fault) ==
    The({ LET s2 == BSP_Flash_EraseParam(s1, fault)
          IN  IF fault.kind = "erase" THEN s2
              ELSE BSP_Flash_WriteParam(s2, ParamBytes(s1.g_param), fault) :
          s1 \in {[s EXCEPT !.g_param.crc = CalcParamCRC(s.g_param)]} })

\* ... and whether it returned 0
APP_Param_Save_Ok(s, fault) ==
    /\ fault.kind # "erase"
    /\ \E s1 \in {[s EXCEPT !.g_param.crc = CalcParamCRC(s.g_param)]} :
          \E data \in {ParamBytes(s1.g_param)} :
             BSP_Flash_WriteParam_Ok(BSP_Flash_EraseParam(s1, fault), data, fault)

APP_Param_SetCurrentSource(s, src) ==
    IF src <= 1 THEN [s EXCEPT !.g_param.current_source = src] ELSE s

\* the +/-1 uA clamp of the trim setters
ClampAdj(adj) ==
    LET a == IF FGt(adj, F_ONE) THEN F_ONE ELSE adj
    IN  IF FLt(a, F_MINUS_ONE) THEN F_MINUS_ONE ELSE a

APP_Param_SetCurrentAdj10(s, adj) == [s EXCEPT !.g_param.current_adj_10uA = ClampAdj(adj)]
APP_Param_SetCurrentAdj17(s, adj) == [s EXCEPT !.g_param.current_adj_17uA = ClampAdj(adj)]
APP_Param_Set4mATemp(s, temp) == [s EXCEPT !.g_param.temp_4mA = temp]
APP_Param_Set20mATemp(s, temp) == [s EXCEPT !.g_param.temp_20mA = temp]

(***************************************************************************)
(* Computed floats: hundredths, with NaN                                   *)
(***************************************************************************)
Abs(x) == IF x < 0 THEN 0 - x ELSE x
Sat(x) == IF x > FHuge THEN FHuge ELSE IF x < 0 - FHuge THEN 0 - FHuge ELSE x

NumAdd(a, b) == IF IsNaN(a) \/ IsNaN(b) THEN NaN ELSE Sat(a + b)
NumSub(a, b) == IF IsNaN(a) \/ IsNaN(b) THEN NaN ELSE Sat(a - b)
\* a / b rounded to the nearest hundredth; x/0 is an infinity (saturated), 0/0 is NaN
NumDivInt(a, b) ==
    IF IsNaN(a) \/ IsNaN(b) THEN NaN
    ELSE IF b = 0 THEN (IF a = 0 THEN NaN ELSE IF a > 0 THEN FHuge ELSE 0 - FHuge)
    ELSE LET q == RoundDiv(Abs(a), Abs(b))
         IN  Sat(IF (a < 0) = (b < 0) THEN q ELSE 0 - q)
NumGt(a, b) == ~IsNaN(a) /\ ~IsNaN(b) /\ a > b
NumLt(a, b) == ~IsNaN(a) /\ ~IsNaN(b) /\ a < b

OUTPUT_MIN_CURRENT == 400
OUTPUT_MAX_CURRENT == 2000
CURRENT_10UA_NOMINAL == 1000
CURRENT_17UA_NOMINAL == 1700

(***************************************************************************)
(* svc_lcd.c: the display data the setters fill, and the panel they are    *)
(* sent to by SVC_LCD_Update                                               *)
(***************************************************************************)
SVC_LCD_SetTemperature(s, t) == [s EXCEPT !.lcd.temperature = t]
SVC_LCD_SetVoltage(s, v) == [s EXCEPT !.lcd.voltage = v]
SVC_LCD_SetCurrent(s, c) == [s EXCEPT !.lcd.output_current = c]
SVC_LCD_SetStatus(s, text) == [s EXCEPT !.lcd.status = text, !.lcd_log = Append(@, text)]
SVC_LCD_SetCurrentSource(s, src) == [s EXCEPT !.lcd.current_src = src]

SVC_LCD_Init(s) ==
    SVC_LCD_SetCurrentSource(
      SVC_LCD_SetCurrent(
        SVC_LCD_SetVoltage(
          SVC_LCD_SetTemperature(SVC_LCD_SetStatus(s, "Initializing..."), 0), 0),
        OUTPUT_MIN_CURRENT), 0)

\* SVC_LCD_Update: sends the display data once the update interval has elapsed
SVC_LCD_Update(s, elapsed) == IF elapsed THEN [s EXCEPT !.panel = s.lcd] ELSE s

(***************************************************************************)
(* svc_dac.c                                                               *)
(***************************************************************************)
\* SVC_DAC_Set420mA: clamps, remembers and drives the 4-20 mA channel
SVC_DAC_Set420mA(s, current_mA) ==
    LET c1 == IF NumLt(current_mA, OUTPUT_MIN_CURRENT) THEN OUTPUT_MIN_CURRENT ELSE current_mA
        c2 == IF NumGt(c1, OUTPUT_MAX_CURRENT) THEN OUTPUT_MAX_CURRENT ELSE c1
    IN  [s EXCEPT !.dac.output_current_mA = c2, !.dac_log = Append(@, c2)]

\* SVC_DAC_SetCurrentSource: selects the source and drives the excitation channel
\* with the nominal current plus its trim (never below zero)
SVC_DAC_SetCurrentSource(s, src) ==
    LET t == IF src = 0
             THEN NumAdd(CURRENT_10UA_NOMINAL, FloatToNum(s.dac.current_adj_10uA))
             ELSE NumAdd(CURRENT_17UA_NOMINAL, FloatToNum(s.dac.current_adj_17uA))
    IN  [s EXCEPT !.dac.current_source = src,
                  !.dac.target_current = IF NumLt(t, 0) THEN 0 ELSE t]

SVC_DAC_Init(s) ==
    [SVC_DAC_Set420mA(s, OUTPUT_MIN_CURRENT) EXCEPT !.dac.current_source = 0]

SVC_DAC_SetCurrentAdj(s, src, adj_uA) ==
    LET a == ClampAdj(adj_uA)
        s1 == IF src = 0 THEN [s EXCEPT !.dac.current_adj_10uA = a]
                         ELSE [s EXCEPT !.dac.current_adj_17uA = a]
    IN  IF s1.dac.current_source = src THEN SVC_DAC_SetCurrentSource(s1, src) ELSE s1

(***************************************************************************)
(* app_output.c                                                            *)
(***************************************************************************)
\* the interpolation without its limits
CalcUnclamped(s, temperature) ==
    LET t4 == FloatToNum(s.g_output.temp_4mA)
        temp_range == NumSub(FloatToNum(s.g_output.temp_20mA), t4)
        d == NumSub(temperature, t4)
    IN  IF temp_range = 0 THEN 1200
        ELSE IF IsNaN(d) \/ IsNaN(temp_range) THEN NaN
        ELSE NumAdd(OUTPUT_MIN_CURRENT,
                    NumDivInt(d * (OUTPUT_MAX_CURRENT - OUTPUT_MIN_CURRENT), temp_range))

\* APP_Output_CalcCurrent: I = 4 + (T - T_4mA) / (T_20mA - T_4mA) * 16, clamped
APP_Output_CalcCurrent(s, temperature) ==
    LET t4 == FloatToNum(s.g_output.temp_4mA)
        t20 == FloatToNum(s.g_output.temp_20mA)
        temp_range == NumSub(t20, t4)
        d == NumSub(temperature, t4)
        current == IF IsNaN(d) \/ IsNaN(temp_range) THEN NaN
                   ELSE NumAdd(OUTPUT_MIN_CURRENT,
                               NumDivInt(d * (OUTPUT_MAX_CURRENT - OUTPUT_MIN_CURRENT),
                                         temp_range))
        c1 == IF NumLt(current, OUTPUT_MIN_CURRENT) THEN OUTPUT_MIN_CURRENT ELSE current
    IN  IF temp_range = 0 THEN 1200
        ELSE IF NumGt(c1, OUTPUT_MAX_CURRENT) THEN OUTPUT_MAX_CURRENT ELSE c1

APP_Output_UpdateCurrent(s, temperature) ==
    LET current == APP_Output_CalcCurrent(s, temperature)
        s1 == [s EXCEPT !.g_output.current_mA = current]
    IN  SVC_LCD_SetCurrent(SVC_DAC_Set420mA(s1, current), current)

\* APP_Output_SetCurrent: the direct setting, limited to 4..20 mA
APP_Output_SetCurrent(s, current_mA) ==
    LET c1 == IF NumLt(current_mA, OUTPUT_MIN_CURRENT) THEN OUTPUT_MIN_CURRENT ELSE current_mA
        c2 == IF NumGt(c1, OUTPUT_MAX_CURRENT) THEN OUTPUT_MAX_CURRENT ELSE c1
        s1 == [s EXCEPT !.g_output.current_mA = c2]
    IN  SVC_LCD_SetCurrent(SVC_DAC_Set420mA(s1, c2), c2)

APP_Output_Init(s) ==
    SVC_DAC_Set420mA([s EXCEPT !.g_output.temp_4mA = s.g_param.temp_4mA,
                               !.g_output.temp_20mA = s.g_param.temp_20mA,
                               !.g_output.current_mA = OUTPUT_MIN_CURRENT],
                     OUTPUT_MIN_CURRENT)

APP_Output_Set4mATemp(s, temp) == [s EXCEPT !.g_output.temp_4mA = temp]
APP_Output_Set20mATemp(s, temp) == [s EXCEPT !.g_output.temp_20mA = temp]

(***************************************************************************)
(* svc_adc.c: the converter.  s.adc_mv is the bridge voltage at its input, *)
(* s.adc_ready its data-ready line, s.adc_started whether a conversion has *)
(* been requested and not yet read.                                        *)
(***************************************************************************)
SVC_ADC_StartConversion(s) ==
    [s EXCEPT !.adc_started = TRUE, !.adc_ready = FALSE, !.adc_log = Append(@, "start")]

SVC_ADC_IsReady(s) == s.adc_ready

\* the state after SVC_ADC_ReadVoltage; the value it returns is s.adc_mv
SVC_ADC_ReadVoltage(s) ==
    [s EXCEPT !.adc_started = FALSE, !.adc_ready = FALSE, !.adc_log = Append(@, "read")]

(***************************************************************************)
(* app_temp.c                                                              *)
(***************************************************************************)
PROBE_STATUS_OK == 0
PROBE_STATUS_OPEN == 1
PROBE_STATUS_SHORT == 2
PROBE_STATUS_RANGE_ERR == 3

PROBE_OPEN_VOLTAGE == 300000
PROBE_SHORT_VOLTAGE == 1000
PROBE_MAX_VOLTAGE == 250000
PROBE_MIN_VOLTAGE == 10000
KELVIN_OFFSET == 27315

TEMP_TABLE_MAGIC == <<84, 66, 76, 0>>

Swap(t, j) == [t EXCEPT ![j] = t[j + 1], ![j + 1] = t[j]]

RECURSIVE BubbleInner(_, _, _)
BubbleInner(t, j, last) ==
    IF j > last THEN t
    ELSE BubbleInner(IF t[j] > t[j + 1] THEN Swap(t, j) ELSE t, j + 1, last)

RECURSIVE BubbleOuter(_, _, _)
BubbleOuter(t, i, len) ==
    IF i >= len - 1 THEN t ELSE BubbleOuter(BubbleInner(t, 1, len - 1 - i), i + 1, len)

\* MedianFilter: bubble sort of a copy, then the middle element
MedianFilter(data, len) == BubbleOuter(data, 0, len)[(len \div 2) + 1]

\* MovingAvgFilter: the state after the call; the value returned is
\* filter_sum / filter_count of that state
MovingAvgFilter(s, value) ==
    [s EXCEPT !.filter_sum = NumAdd(NumSub(@, s.filter_buffer[s.filter_index + 1]), value),
              !.filter_buffer[s.filter_index + 1] = value,
              !.filter_index = (@ + 1) % TEMP_FILTER_SIZE,
              !.filter_count = IF @ < TEMP_FILTER_SIZE THEN @ + 1 ELSE @]

MovingAvgResult(s) == NumDivInt(s.filter_sum, s.filter_count)

\* a probe check that tests the measuring range first
CheckRangeFirst(voltage) ==
    IF NumGt(voltage, PROBE_MAX_VOLTAGE) \/ NumLt(voltage, PROBE_MIN_VOLTAGE)
    THEN PROBE_STATUS_RANGE_ERR
    ELSE IF NumGt(voltage, PROBE_OPEN_VOLTAGE) THEN PROBE_STATUS_OPEN
    ELSE IF NumLt(voltage, PROBE_SHORT_VOLTAGE) THEN PROBE_STATUS_SHORT
    ELSE PROBE_STATUS_OK

CheckProbeStatus(voltage) ==
    IF NumGt(voltage, PROBE_OPEN_VOLTAGE) THEN PROBE_STATUS_OPEN
    ELSE IF NumLt(voltage, PROBE_SHORT_VOLTAGE) THEN PROBE_STATUS_SHORT
    ELSE IF NumGt(voltage, PROBE_MAX_VOLTAGE) \/ NumLt(voltage, PROBE_MIN_VOLTAGE)
    THEN PROBE_STATUS_RANGE_ERR
    ELSE PROBE_STATUS_OK

Kelvin_to_Celsius(kelvin) == NumSub(kelvin, KELVIN_OFFSET)

\* a verification that looks at the point count alone
VerifyCountOnly(t) ==
    IF t.point_count = 0 \/ t.point_count > TEMP_TABLE_MAX_POINTS THEN -1 ELSE 0

\* APP_Temp_TableVerify: 0 = valid, -1 = invalid
APP_Temp_TableVerify(t) ==
    IF t.magic # TEMP_TABLE_MAGIC THEN -1
    ELSE IF t.point_count = 0 \/ t.point_count > TEMP_TABLE_MAX_POINTS THEN -1
    ELSE 0

\* a binary search that takes the table to ascend
RECURSIVE SearchAscending(_, _, _, _)
SearchAscending(pts, voltage, low, high) ==
    IF high - low > 1
    THEN LET mid == (low + high) \div 2
         IN  IF voltage < pts[mid + 1].voltage
             THEN SearchAscending(pts, voltage, low, mid)
             ELSE SearchAscending(pts, voltage, mid, high)
    ELSE <<low, high>>

\* the binary search of APP_Temp_TableLookup; points are numbered from 0 in the
\* code and from 1 here
RECURSIVE TableSearch(_, _, _, _)
TableSearch(pts, voltage, low, high) ==
    IF high - low > 1
    THEN LET mid == (low + high) \div 2
         IN  IF voltage > pts[mid + 1].voltage
             THEN TableSearch(pts, voltage, low, mid)
             ELSE TableSearch(pts, voltage, mid, high)
    ELSE <<low, high>>

\* a lookup whose two boundary answers are exchanged
LookupEndsSwapped(t, voltage) ==
    LET high == t.point_count - 1
    IN  IF APP_Temp_TableVerify(t) # 0 THEN 0
        ELSE IF voltage >= t.points[1].voltage THEN t.points[high + 1].temperature
        ELSE IF voltage <= t.points[high + 1].voltage THEN t.points[1].temperature
        ELSE LET lh == TableSearch(t.points, voltage, 0, high)
                 v0 == t.points[lh[1] + 1].voltage
                 v1 == t.points[lh[2] + 1].voltage
                 t0 == t.points[lh[1] + 1].temperature
                 t1 == t.points[lh[2] + 1].temperature
             IN  NumAdd(t0, NumDivInt((voltage - v0) * (t1 - t0), v1 - v0))

APP_Temp_TableLookup(t, voltage) ==
    LET high == t.point_count - 1
    IN  IF APP_Temp_TableVerify(t) # 0 THEN 0
        ELSE IF voltage >= t.points[1].voltage THEN t.points[1].temperature
        ELSE IF voltage <= t.points[high + 1].voltage THEN t.points[high + 1].temperature
        ELSE LET lh == TableSearch(t.points, voltage, 0, high)
                 v0 == t.points[lh[1] + 1].voltage
                 v1 == t.points[lh[2] + 1].voltage
                 t0 == t.points[lh[1] + 1].temperature
                 t1 == t.points[lh[2] + 1].temperature
             IN  NumAdd(t0, NumDivInt((voltage - v0) * (t1 - t0), v1 - v0))

APP_Temp_SetCurrentSource(s, src) ==
    SVC_LCD_SetCurrentSource(
        SVC_DAC_SetCurrentSource([s EXCEPT !.g_temp.current_src = src],
                                 IF src # 0 THEN 1 ELSE 0),
        src)

\* a start that leaves the write position of the ring where it was
StartKeepsIndex(s) ==
    SVC_LCD_SetStatus(
        SVC_ADC_StartConversion([s EXCEPT !.g_temp.running = 1,
                                          !.g_temp.state = "SAMPLING"]),
        "Measuring...")

APP_Temp_Start(s) ==
    SVC_LCD_SetStatus(
        SVC_ADC_StartConversion([s EXCEPT !.g_temp.running = 1,
                                          !.g_temp.state = "SAMPLING",
                                          !.sample_index = 0]),
        "Measuring...")

APP_Temp_Stop(s) ==
    SVC_LCD_SetStatus([s EXCEPT !.g_temp.running = 0, !.g_temp.state = "IDLE"], "Stopped")

APP_Temp_Init(s) ==
    LET s1 == [s EXCEPT !.g_temp = [state |-> "IDLE", probe_status |-> PROBE_STATUS_OK,
                                    current_src |-> 0, running |-> 0, raw_voltage |-> 0,
                                    filtered_voltage |-> 0, temperature_K |-> 0,
                                    temperature_C |-> 0, sample_count |-> 0],
                        !.filter_buffer = [i \in 1..TEMP_FILTER_SIZE |-> 0],
                        !.filter_index = 0, !.filter_count = 0, !.filter_sum = 0,
                        !.sample_index = 0]
        s2 == SVC_DAC_SetCurrentSource(SVC_DAC_Init(s1), 0)
    IN  IF APP_Temp_TableVerify(s2.table) # 0
        THEN [s2 EXCEPT !.g_temp.state = "ERROR"]
        ELSE s2

ProbeFaultText(st) ==
    IF st = PROBE_STATUS_OPEN THEN "Probe Open!"
    ELSE IF st = PROBE_STATUS_SHORT THEN "Probe Short!"
    ELSE IF st = PROBE_STATUS_RANGE_ERR THEN "Out of Range!"
    ELSE "Error!"

\* a Sampling phase that does not start the next conversion after a read
SamplingForgetsStart(s) ==
    IF SVC_ADC_IsReady(s)
    THEN LET s1 == [SVC_ADC_ReadVoltage(s) EXCEPT
                       !.g_temp.raw_voltage = s.adc_mv,
                       !.sample_buffer[s.sample_index + 1] = s.adc_mv,
                       !.sample_index = @ + 1]
         IN  IF s1.sample_index >= TEMP_SAMPLE_COUNT
             THEN [s1 EXCEPT !.sample_index = 0, !.g_temp.state = "FILTERING"]
             ELSE s1
    ELSE s

\* a Sampling phase that starts the conversion again when it is not ready
SamplingRestarts(s) ==
    IF SVC_ADC_IsReady(s)
    THEN LET s1 == [SVC_ADC_ReadVoltage(s) EXCEPT
                       !.g_temp.raw_voltage = s.adc_mv,
                       !.sample_buffer[s.sample_index + 1] = s.adc_mv,
                       !.sample_index = @ + 1]
         IN  IF s1.sample_index >= TEMP_SAMPLE_COUNT
             THEN [s1 EXCEPT !.sample_index = 0, !.g_temp.state = "FILTERING"]
             ELSE SVC_ADC_StartConversion(s1)
    ELSE SVC_ADC_StartConversion(s)

TempSampling(s) ==
    IF SVC_ADC_IsReady(s)
    THEN LET s1 == [SVC_ADC_ReadVoltage(s) EXCEPT
                       !.g_temp.raw_voltage = s.adc_mv,
                       !.sample_buffer[s.sample_index + 1] = s.adc_mv,
                       !.sample_index = @ + 1]
         IN  IF s1.sample_index >= TEMP_SAMPLE_COUNT
             THEN [s1 EXCEPT !.sample_index = 0, !.g_temp.state = "FILTERING"]
             ELSE SVC_ADC_StartConversion(s1)
    ELSE s

\* a Filtering phase that hands over to Outputting
FilteringSkipsCalculating(s) ==
    LET median_value == MedianFilter(s.sample_buffer, TEMP_SAMPLE_COUNT)
        s1 == MovingAvgFilter(s, median_value)
    IN  [s1 EXCEPT !.g_temp.filtered_voltage = MovingAvgResult(s1),
                   !.g_temp.probe_status = CheckProbeStatus(MovingAvgResult(s1)),
                   !.g_temp.state = "OUTPUTTING"]

TempFiltering(s) ==
    LET median_value == MedianFilter(s.sample_buffer, TEMP_SAMPLE_COUNT)
        s1 == MovingAvgFilter(s, median_value)
    IN  [s1 EXCEPT !.g_temp.filtered_voltage = MovingAvgResult(s1),
                   !.g_temp.probe_status = CheckProbeStatus(MovingAvgResult(s1)),
                   !.g_temp.state = "CALCULATING"]

TempCalculating(s) ==
    LET s1 == IF s.g_temp.probe_status = PROBE_STATUS_OK
              THEN LET k == APP_Temp_TableLookup(s.table, s.g_temp.filtered_voltage)
                       c == Kelvin_to_Celsius(k)
                   IN  SVC_LCD_SetStatus(
                         SVC_LCD_SetVoltage(
                           SVC_LCD_SetTemperature(
                             [s EXCEPT !.g_temp.temperature_K = k,
                                       !.g_temp.temperature_C = c], c),
                           s.g_temp.filtered_voltage),
                         "OK")
              ELSE SVC_LCD_SetStatus(s, ProbeFaultText(s.g_temp.probe_status))
    IN  [s1 EXCEPT !.g_temp.state = "OUTPUTTING"]

\* an Outputting phase that counts the cycle only when the probe is in order
OutputtingCountsOk(s) ==
    IF s.g_temp.probe_status = PROBE_STATUS_OK
    THEN SVC_ADC_StartConversion(
           [APP_Output_UpdateCurrent(s, s.g_temp.temperature_C) EXCEPT
               !.g_temp.sample_count = @ + 1, !.g_temp.state = "SAMPLING"])
    ELSE SVC_ADC_StartConversion([s EXCEPT !.g_temp.state = "SAMPLING"])

\* an Outputting phase that returns to Sampling without starting a conversion
OutputtingForgetsStart(s) ==
    LET s1 == IF s.g_temp.probe_status = PROBE_STATUS_OK
              THEN APP_Output_UpdateCurrent(s, s.g_temp.temperature_C)
              ELSE s
    IN  [s1 EXCEPT !.g_temp.sample_count = @ + 1, !.g_temp.state = "SAMPLING"]

TempOutputting(s) ==
    LET s1 == IF s.g_temp.probe_status = PROBE_STATUS_OK
              THEN APP_Output_UpdateCurrent(s, s.g_temp.temperature_C)
              ELSE s
    IN  SVC_ADC_StartConversion([s1 EXCEPT !.g_temp.sample_count = @ + 1,
                                           !.g_temp.state = "SAMPLING"])

\* APP_Temp_Process: one call from the main loop
APP_Temp_Process(s) ==
    IF s.g_temp.running = 0 THEN s
    ELSE CASE s.g_temp.state = "SAMPLING" -> TempSampling(s)
           [] s.g_temp.state = "FILTERING" -> TempFiltering(s)
           [] s.g_temp.state = "CALCULATING" -> TempCalculating(s)
           [] s.g_temp.state = "OUTPUTTING" -> TempOutputting(s)
           [] s.g_temp.state = "ERROR" -> SVC_LCD_SetStatus(s, "System Error!")
           [] OTHER -> [s EXCEPT !.g_temp.state = "IDLE"]

(***************************************************************************)
(* svc_usb.c: the receive ring between the USB interrupt and the main loop.*)
(* s.rxq holds the bytes from rx_tail to rx_head, oldest first.            *)
(***************************************************************************)
\* SVC_USB_RxCallback: each byte is stored unless the ring is full, then it is
\* dropped; the ring holds USB_RX_BUFFER_SIZE - 1 bytes, so of data the first
\* bytes that fit are stored
SVC_USB_RxCallback(q, data) ==
    LET room == (USB_RX_BUFFER_SIZE - 1) - Len(q)
    IN  IF Len(data) <= room THEN q \o data ELSE q \o SubSeq(data, 1, room)

SVC_USB_Init(s) == [s EXCEPT !.rxq = <<>>]

\* the body of the loop of SVC_USB_RxCallback for one byte, which overwrites
\* the oldest byte when the ring is full
RxStoreAlways(r, byte) ==
    [r EXCEPT !.rx_buffer[r.rx_head] = byte,
              !.rx_head = (r.rx_head + 1) % USB_RX_BUFFER_SIZE,
              !.stored = @ + 1]

\* the body of the loop of SVC_USB_RxCallback for one byte
RxStore(r, byte) ==
    LET next_head == (r.rx_head + 1) % USB_RX_BUFFER_SIZE
    IN  IF next_head # r.rx_tail
        THEN [r EXCEPT !.rx_buffer[r.rx_head] = byte, !.rx_head = next_head,
                       !.stored = @ + 1]
        ELSE [r EXCEPT !.dropped = @ + 1]

\* SVC_USB_RxCallback on the ring itself: the loop over data[lo] .. data[hi],
\* in that order, as its first half followed by its second half
RECURSIVE RxLoop(_, _, _, _)
RxLoop(r, data, lo, hi) ==
    IF lo > hi THEN r
    ELSE IF lo = hi THEN RxStore(r, data[lo])
    ELSE LET mid == (lo + hi) \div 2
         IN  The({ RxLoop(r1, data, mid + 1, hi) : r1 \in {RxLoop(r, data, lo, mid)} })

RingRxCallback(r, data) ==
    The({ [r1 EXCEPT !.callbacks = @ + 1] : r1 \in {RxLoop(r, data, 1, Len(data))} })

\* SVC_USB_ReadByte, statement by statement: the test of rx_head == rx_tail
\* (return -1), the load of rx_buffer[rx_tail], the store of rx_tail with the
\* return of data
ReadByteTest(r) ==
    IF r.rx_head = r.rx_tail THEN [r EXCEPT !.at = "out", !.ret = -1]
    ELSE [r EXCEPT !.at = "load"]

ReadByteLoad(r) == [r EXCEPT !.data = r.rx_buffer[r.rx_tail], !.at = "advance"]

ReadByteAdvance(r) ==
    [r EXCEPT !.rx_tail = (r.rx_tail + 1) % USB_RX_BUFFER_SIZE,
              !.at = "out", !.ret = r.data, !.returned = @ + 1]

\* SVC_USB_Transmit: the frame is handed to the CDC transport
SVC_USB_Transmit(s, buf) == [s EXCEPT !.tx = Append(@, buf)]

(***************************************************************************)
(* app_comm.c: response encoders                                           *)
(***************************************************************************)
\* an encoder whose CRC also covers the head byte
CrcCoveredWithHead(cmd, data) == <<FRAME_HEAD, cmd, Len(data)>> \o data

\* the frame 0xAA | cmd | len | payload | crc_lo | crc_hi | 0x55 with the CRC taken
\* over the bytes named by CrcCovered
CrcCovered(cmd, data) == <<cmd, Len(data)>> \o data

EncodeFrame(cmd, data) ==
    <<FRAME_HEAD, cmd, Len(data)>> \o data
    \o LE16(APP_Comm_CRC16(CrcCovered(cmd, data))) \o <<FRAME_TAIL>>

\* APP_Comm_SendAck: the frame carries CMD_ACK and the status; cmd is not encoded
APP_Comm_SendAck(s, cmd, status) == SVC_USB_Transmit(s, EncodeFrame(CMD_ACK, <<status>>))

\* a data encoder that answers under the report code instead of the query's
SendDataAsReport(s, cmd, data) == SVC_USB_Transmit(s, EncodeFrame(CMD_DATA_REPORT, data))

APP_Comm_SendData(s, cmd, data) == SVC_USB_Transmit(s, EncodeFrame(cmd, data))

(***************************************************************************)
(* app_comm.c: command dispatch                                            *)
(***************************************************************************)
\* device_id[16] = "TM02-00000001", zero padded
device_id == <<84, 77, 48, 50, 45, 48, 48, 48, 48, 48, 48, 48, 49, 0, 0, 0>>

LE32(n) == <<n % 256, (n \div 256) % 256, (n \div 65536) % 256, n \div 16777216>>

\* the first len bytes of the frame buffer
Payload(frame) == [i \in 1..frame.len |-> frame.data[i - 1]]

\* memcpy(&fval, frame->data, 4)
FrameFloat(frame) == <<frame.data[0], frame.data[1], frame.data[2], frame.data[3]>>

StatusData(s) ==
    <<s.g_temp.running, s.g_temp.current_src, s.g_temp.probe_status, 0>>
    \o LE32(s.g_temp.sample_count)

\* a dispatcher that does not look at the payload length
FloatLenAny(frame) == TRUE
\* the length check of the float set commands
FloatLenOk(frame) == frame.len >= 4

\* a dispatcher that does not range-check the selector byte
SrcLenOnly(frame) == frame.len >= 1
\* the length and range check of the selector set command
SrcParamOk(frame) == frame.len >= 1 /\ frame.data[0] <= 1

\* a default branch that acknowledges what it does not know
UnknownCmdOk(s, cmd) == APP_Comm_SendAck(s, cmd, STATUS_OK)

\* the default branch of ProcessFrame's switch
UnknownCmd(s, cmd) == APP_Comm_SendAck(s, cmd, STATUS_INVALID_CMD)

\* ProcessFrame, by command code; fault is what the flash hardware does if the
\* command saves
ProcessCmd(s, frame, fault) ==
    LET cmd == frame.cmd
        fval == FrameFloat(frame)
    IN  CASE cmd = CMD_GET_DEVICE_ID -> APP_Comm_SendData(s, cmd, device_id)
          [] cmd = CMD_GET_TEMPERATURE ->
                APP_Comm_SendData(s, cmd, NumToFloat(s.g_temp.temperature_C))
          [] cmd = CMD_GET_VOLTAGE ->
                APP_Comm_SendData(s, cmd, NumToFloat(s.g_temp.filtered_voltage))
          [] cmd = CMD_GET_CURRENT ->
                APP_Comm_SendData(s, cmd, NumToFloat(s.g_output.current_mA))
          [] cmd = CMD_GET_STATUS -> APP_Comm_SendData(s, cmd, StatusData(s))
          [] cmd = CMD_SET_CURRENT_SRC ->
                IF SrcParamOk(frame)
                THEN APP_Comm_SendAck(
                       APP_Param_SetCurrentSource(
                         APP_Temp_SetCurrentSource(s, frame.data[0]), frame.data[0]),
                       cmd, STATUS_OK)
                ELSE APP_Comm_SendAck(s, cmd, STATUS_INVALID_PARAM)
          [] cmd = CMD_SET_CURRENT_ADJ_10 ->
                IF FloatLenOk(frame)
                THEN APP_Comm_SendAck(
                       SVC_DAC_SetCurrentAdj(APP_Param_SetCurrentAdj10(s, fval), 0, fval),
                       cmd, STATUS_OK)
                ELSE APP_Comm_SendAck(s, cmd, STATUS_INVALID_PARAM)
          [] cmd = CMD_SET_CURRENT_ADJ_17 ->
                IF FloatLenOk(frame)
                THEN APP_Comm_SendAck(
                       SVC_DAC_SetCurrentAdj(APP_Param_SetCurrentAdj17(s, fval), 1, fval),
                       cmd, STATUS_OK)
                ELSE APP_Comm_SendAck(s, cmd, STATUS_INVALID_PARAM)
          [] cmd = CMD_SET_4MA_TEMP ->
                IF FloatLenOk(frame)
                THEN APP_Comm_SendAck(
                       APP_Output_Set4mATemp(APP_Param_Set4mATemp(s, fval), fval),
                       cmd, STATUS_OK)
                ELSE APP_Comm_SendAck(s, cmd, STATUS_INVALID_PARAM)
          [] cmd = CMD_SET_20MA_TEMP ->
                IF FloatLenOk(frame)
                THEN APP_Comm_SendAck(
                       APP_Output_Set20mATemp(APP_Param_Set20mATemp(s, fval), fval),
                       cmd, STATUS_OK)
                ELSE APP_Comm_SendAck(s, cmd, STATUS_INVALID_PARAM)
          [] cmd = CMD_START_ACQ -> APP_Comm_SendAck(APP_Temp_Start(s), cmd, STATUS_OK)
          [] cmd = CMD_STOP_ACQ -> APP_Comm_SendAck(APP_Temp_Stop(s), cmd, STATUS_OK)
          [] cmd = CMD_SAVE_PARAM ->
                APP_Comm_SendAck(APP_Param_Save(s, fault), cmd,
                                 IF APP_Param_Save_Ok(s, fault)
                                 THEN STATUS_OK ELSE STATUS_FLASH_ERROR)
          [] cmd = CMD_LOAD_PARAM ->
                APP_Comm_SendAck(APP_Param_Load(s), cmd,
                                 IF APP_Param_Load_Ok(s)
                                 THEN STATUS_OK ELSE STATUS_FLASH_ERROR)
          [] cmd = CMD_RESET_DEFAULT ->
                APP_Comm_SendAck(APP_Param_SetDefault(s), cmd, STATUS_OK)
          [] OTHER -> UnknownCmd(s, cmd)

\* ProcessFrame(&rx_frame); s.dispatched records the frame handed to it
ProcessFrame(s, fault) ==
    ProcessCmd([s EXCEPT !.dispatched =
                    Append(@, [cmd |-> s.rx_frame.cmd, len |-> s.rx_frame.len,
                               data |-> Payload(s.rx_frame)])],
               s.rx_frame, fault)

(***************************************************************************)
(* app_comm.c: the byte parser                                             *)
(***************************************************************************)
\* the bytes the receiver's CRC is computed over: crc_buf of PARSE_TAIL
CrcBuf(frame) == <<frame.cmd, frame.len>> \o Payload(frame)

\* the 16-bit value the two received CRC bytes form
RxCrc(lo, hi) == lo + 256 * hi

\* a receiver that dispatches without comparing the CRC
ParseTailUnchecked(s, fault) == ProcessFrame(s, fault)

\* PARSE_TAIL with the tail byte received
ParseTail(s, fault) ==
    IF APP_Comm_CRC16(CrcBuf(s.rx_frame)) = s.rx_frame.crc
    THEN ProcessFrame(s, fault)
    ELSE APP_Comm_SendAck(s, s.rx_frame.cmd, STATUS_CRC_ERROR)

\* a PARSE_TAIL that answers a wrong tail byte with a CRC-error acknowledgment
TailByteNacks(s, byte, fault) ==
    [(IF byte = FRAME_TAIL THEN ParseTail(s, fault)
      ELSE APP_Comm_SendAck(s, s.rx_frame.cmd, STATUS_CRC_ERROR))
        EXCEPT !.parse_state = "HEAD"]

\* PARSE_TAIL: the byte after the CRC
ParseTailByte(s, byte, fault) ==
    [(IF byte = FRAME_TAIL THEN ParseTail(s, fault) ELSE s) EXCEPT !.parse_state = "HEAD"]

\* a PARSE_LEN that leaves the payload index where the last frame left it
LenKeepsIndex(s, byte) ==
    [s EXCEPT !.rx_frame.len = byte,
              !.parse_state = IF byte > 0 THEN "DATA" ELSE "CRC_L"]

\* PARSE_LEN: the length byte
ParseLenByte(s, byte) ==
    [s EXCEPT !.rx_frame.len = byte, !.data_index = 0,
              !.parse_state = IF byte > 0 THEN "DATA" ELSE "CRC_L"]

\* ParseByte; s.raw keeps the bytes taken since the parser last left PARSE_HEAD
ParseByte(s, byte, fault) ==
    LET s0 == [s EXCEPT !.raw = IF s.parse_state = "HEAD"
                                THEN (IF byte = FRAME_HEAD THEN <<byte>> ELSE <<>>)
                                ELSE Append(@, byte)]
    IN  CASE s.parse_state = "HEAD" ->
               IF byte = FRAME_HEAD
               THEN [s0 EXCEPT !.rx_frame.head = byte, !.parse_state = "CMD"]
               ELSE s0
          [] s.parse_state = "CMD" ->
               [s0 EXCEPT !.rx_frame.cmd = byte, !.parse_state = "LEN"]
          [] s.parse_state = "LEN" -> ParseLenByte(s0, byte)
          [] s.parse_state = "DATA" ->
               [s0 EXCEPT !.rx_frame.data[s.data_index] = byte,
                          !.data_index = @ + 1,
                          !.parse_state = IF s.data_index + 1 >= s.rx_frame.len
                                          THEN "CRC_L" ELSE "DATA"]
          [] s.parse_state = "CRC_L" ->
               [s0 EXCEPT !.rx_frame.crc = byte, !.parse_state = "CRC_H"]
          [] s.parse_state = "CRC_H" ->
               [s0 EXCEPT !.rx_frame.crc = RxCrc(s.rx_frame.crc, byte),
                          !.parse_state = "TAIL"]
          [] s.parse_state = "TAIL" -> ParseTailByte(s0, byte, fault)

APP_Comm_Init(s) == SVC_USB_Init([s EXCEPT !.parse_state = "HEAD", !.data_index = 0])

(***************************************************************************)
(* State                                                                   *)
(***************************************************************************)
VARIABLES
    pc,             \* where the program is: "boot", then App_Process: "temp", "comm", "lcd", "out"
    flash,          \* the parameter record's bytes in the flash parameter sector
    table,          \* the calibration table region of the flash
    g_param,        \* app_param.c: the parameter record in RAM
    g_temp,         \* app_temp.c: TempMeasure_t
    sample_buffer, sample_index,
    filter_buffer, filter_index, filter_count, filter_sum,
    adc_mv, adc_ready, adc_started,
    g_output,       \* app_output.c: OutputConfig_t
    dac,            \* svc_dac.c: selected source, trims, driven outputs
    lcd, panel,     \* svc_lcd.c: lcd_data, and what the panel was last sent
    parse_state, rx_frame, data_index,
    rxq,            \* svc_usb.c: the receive ring, rx_tail to rx_head
    raw,            \* the bytes the parser has taken since it last left PARSE_HEAD
    tx,             \* frames handed to SVC_USB_Transmit in the last step (the CDC link is outside the model)
    dispatched,     \* frames handed to ProcessFrame in the last step
    flash_ops,      \* erase / program operations of the last step
    lcd_log,        \* status texts set in the last step
    dac_log,        \* values driven to the 4-20 mA channel in the last step
    adc_log,        \* conversion starts / reads of the last step
    step,           \* the last step taken
    host_sends,     \* number of host transmissions so far
    host_last,      \* the last host transmission
    disp_since,     \* frames dispatched since the last host transmission
    saved,          \* <<>>, or <<r>>: r is the record in memory at the call of the last
                    \* save, which returned 0, or <<r, <<i, k>>>>: bit k of stored byte i
                    \* has changed since that save
    call,           \* the direct call, made by the last step, of a function that returns
                    \* a value: its name, its arguments and what it returned
    ring,           \* the receive ring of svc_usb.c statement by statement: rx_buffer,
                    \* rx_head, rx_tail, where SVC_USB_ReadByte stands and its local
                    \* data, what it returned last, and the numbers of bytes stored,
                    \* dropped and returned and of callbacks so far
    acq             \* the samples read from the converter: those read since the
                    \* pipeline last entered Sampling (fresh), and those that no
                    \* Filtering phase has yet found in the ring (unfiltered)

progVars ==
    <<flash, table, g_param, g_temp, sample_buffer, sample_index, filter_buffer,
      filter_index, filter_count, filter_sum, adc_mv, adc_ready, adc_started,
      g_output, dac, lcd, panel, parse_state, rx_frame, data_index, rxq, raw,
      tx, dispatched, flash_ops, lcd_log, dac_log, adc_log>>

vars == <<pc, progVars, step, host_sends, host_last, disp_since, saved, call, acq, ring>>

\* the program state as one record, for the operations above
Cur ==
    [flash |-> flash, table |-> table, g_param |-> g_param, g_temp |-> g_temp,
     sample_buffer |-> sample_buffer, sample_index |-> sample_index,
     filter_buffer |-> filter_buffer, filter_index |-> filter_index,
     filter_count |-> filter_count, filter_sum |-> filter_sum,
     adc_mv |-> adc_mv, adc_ready |-> adc_ready, adc_started |-> adc_started,
     g_output |-> g_output, dac |-> dac, lcd |-> lcd, panel |-> panel,
     parse_state |-> parse_state, rx_frame |-> rx_frame, data_index |-> data_index,
     rxq |-> rxq, raw |-> raw, tx |-> tx, dispatched |-> dispatched,
     flash_ops |-> flash_ops, lcd_log |-> lcd_log, dac_log |-> dac_log,
     adc_log |-> adc_log]

\* the program state at the start of a step: the per-step records are empty
Begin ==
    [Cur EXCEPT !.tx = <<>>, !.dispatched = <<>>, !.flash_ops = <<>>,
                !.lcd_log = <<>>, !.dac_log = <<>>, !.adc_log = <<>>]

\* the step's result becomes the next state
Commit(r) ==
    \E s \in {r} :
        /\ flash' = s.flash /\ table' = s.table /\ g_param' = s.g_param
        /\ g_temp' = s.g_temp /\ sample_buffer' = s.sample_buffer
        /\ sample_index' = s.sample_index /\ filter_buffer' = s.filter_buffer
        /\ filter_index' = s.filter_index /\ filter_count' = s.filter_count
        /\ filter_sum' = s.filter_sum /\ adc_mv' = s.adc_mv /\ adc_ready' = s.adc_ready
        /\ adc_started' = s.adc_started /\ g_output' = s.g_output /\ dac' = s.dac
        /\ lcd' = s.lcd /\ panel' = s.panel /\ parse_state' = s.parse_state
        /\ rx_frame' = s.rx_frame /\ data_index' = s.data_index /\ rxq' = s.rxq
        /\ raw' = s.raw /\ tx' = s.tx /\ dispatched' = s.dispatched
        /\ flash_ops' = s.flash_ops /\ lcd_log' = s.lcd_log /\ dac_log' = s.dac_log
        /\ adc_log' = s.adc_log

(***************************************************************************)
(* What the environment may hold and send                                  *)
(***************************************************************************)
WithCrc(p) == [p EXCEPT !.crc = CalcParamCRC(p)]

\* a record saved earlier from non-default values
StoredParam ==
    WithCrc([DefaultParam EXCEPT !.current_source = 1, !.current_adj_10uA = F_HALF,
                                 !.temp_4mA = F_ZERO, !.temp_20mA = F_FIFTY])

FlashImages ==
    { ErasedImage,
      ParamBytes(StoredParam),
      \* one payload byte changed after the checksum was taken
      ParamBytes([StoredParam EXCEPT !.temp_4mA = F_ONE]),
      \* a foreign magic, a newer schema and a selector of 2, each with a matching checksum
      ParamBytes(WithCrc([StoredParam EXCEPT !.magic = <<50, 80, 77, 85>>])),
      ParamBytes(WithCrc([StoredParam EXCEPT !.version = PARAM_VERSION + 1])),
      ParamBytes(WithCrc([StoredParam EXCEPT !.current_source = 2])) }

Pt(v, t) == [voltage |-> v, temperature |-> t]

ValidTable ==
    [magic |-> TEMP_TABLE_MAGIC, point_count |-> 3,
     points |-> <<Pt(200000, 20000), Pt(150000, 25000), Pt(100000, 30000)>>]

\* an erased table sector
ErasedTable == [magic |-> <<255, 255, 255, 255>>, point_count |-> 65535, points |-> <<>>]

\* bridge voltages: in range, and open probe
AdcValues == {150000, 350000}

\* what the flash hardware does during a save
NoFault == [kind |-> "none", at |-> 0]
Faults ==
    { NoFault, [kind |-> "erase", at |-> 0],
      [kind |-> "program", at |-> 0], [kind |-> "program", at |-> 3],
      [kind |-> "verify", at |-> 0] }

Extra(k) == [i \in 1..k |-> 9]
Longer(data) == { data \o Extra(k) : k \in 1..MaxExtra }

\* the commands a host sends: <<command code, payload>>
HostCommands ==
    { <<CMD_GET_DEVICE_ID, <<>>>>, <<CMD_GET_TEMPERATURE, <<>>>>, <<CMD_GET_VOLTAGE, <<>>>>,
      <<CMD_GET_CURRENT, <<>>>>, <<CMD_GET_STATUS, <<>>>>,
      <<CMD_SET_CURRENT_SRC, <<0>>>>, <<CMD_SET_CURRENT_SRC, <<1>>>>,
      <<CMD_SET_CURRENT_SRC, <<2>>>>, <<CMD_SET_CURRENT_SRC, <<>>>>,
      <<CMD_SET_CURRENT_ADJ_10, F_HALF>>, <<CMD_SET_CURRENT_ADJ_10, F_TWO>>,
      <<CMD_SET_CURRENT_ADJ_10, <<0, 0, 0>>>>,
      <<CMD_SET_CURRENT_ADJ_17, F_MINUS_TWO>>, <<CMD_SET_CURRENT_ADJ_17, <<0, 0>>>>,
      <<CMD_SET_4MA_TEMP, F_ZERO>>, <<CMD_SET_4MA_TEMP, <<0>>>>,
      <<CMD_SET_20MA_TEMP, F_FIFTY>>, <<CMD_SET_20MA_TEMP, <<>>>>,
      <<CMD_START_ACQ, <<>>>>, <<CMD_STOP_ACQ, <<>>>>,
      <<CMD_SAVE_PARAM, <<>>>>, <<CMD_LOAD_PARAM, <<>>>>, <<CMD_RESET_DEFAULT, <<>>>>,
      <<CMD_LOAD_TABLE_START, <<>>>>, <<CMD_LOAD_TABLE_END, <<>>>>, <<CMD_ACK, <<0>>>>,
      <<CMD_NACK, <<1>>>>, <<CMD_DATA_REPORT, <<>>>> }
    \cup { <<CMD_SET_CURRENT_SRC, d>> : d \in Longer(<<1>>) }
    \cup { <<CMD_SET_4MA_TEMP, d>> : d \in Longer(F_ONE) }

Msg(kind, c, bytes) == [kind |-> kind, cmd |-> c[1], data |-> c[2], bytes |-> bytes]

\* a frame whose CRC low byte is wrong, one whose tail is wrong, one cut short
BadCrc(f) == [f EXCEPT ![Len(f) - 2] = (f[Len(f) - 2] + 1) % 256]
BadTail(f) == [f EXCEPT ![Len(f)] = 0]

DamagedCommands == { <<CMD_SET_CURRENT_SRC, <<1>>>>, <<CMD_SAVE_PARAM, <<>>>> }

HostMessages ==
    { Msg("good", c, EncodeFrame(c[1], c[2])) : c \in HostCommands }
    \cup { Msg("badcrc", c, BadCrc(EncodeFrame(c[1], c[2]))) : c \in DamagedCommands }
    \cup { Msg("badtail", c, BadTail(EncodeFrame(c[1], c[2]))) : c \in DamagedCommands }
    \cup { Msg("cut", c, SubSeq(EncodeFrame(c[1], c[2]), 1, 2)) : c \in DamagedCommands }
    \cup { Msg("noise", <<0, <<>>>>, <<FRAME_TAIL, 0>>) }

\* the ring as its static initialisers leave it, the reader not in a call
EmptyRing ==
    [rx_buffer |-> [i \in 0..(USB_RX_BUFFER_SIZE - 1) |-> 0], rx_head |-> 0, rx_tail |-> 0,
     at |-> "out", data |-> 0, ret |-> -2, stored |-> 0, dropped |-> 0, returned |-> 0,
     callbacks |-> 0]

\* no sample has been read
NoSamples == [fresh |-> <<>>, unfiltered |-> <<>>]

\* the last step called no such function
NoCall == [fn |-> "none", args |-> <<>>, out |-> <<>>]

NoMessage == Msg("none", <<0, <<>>>>, <<>>)

(***************************************************************************)
(* The state after reset: static initialisers, and whatever the flash and  *)
(* the probe hold                                                          *)
(***************************************************************************)
InitChoices ==
    { <<img, ValidTable, 150000>> : img \in FlashImages }
    \cup { <<ErasedImage, ErasedTable, 150000>>,
           <<ErasedImage, ValidTable, 350000>>,
           <<ParamBytes(StoredParam), ValidTable, 350000>> }

InitWith(choices) ==
    /\ pc = "boot"
    /\ \E c \in choices : flash = c[1] /\ table = c[2] /\ adc_mv = c[3]
    /\ g_param = [DefaultParam EXCEPT !.crc = 0]
    /\ g_temp = [state |-> "IDLE", probe_status |-> PROBE_STATUS_OK, current_src |-> 0,
                 running |-> 0, raw_voltage |-> 0, filtered_voltage |-> 0,
                 temperature_K |-> 0, temperature_C |-> 0, sample_count |-> 0]
    /\ sample_buffer = [i \in 1..TEMP_SAMPLE_COUNT |-> 0]
    /\ sample_index = 0
    /\ filter_buffer = [i \in 1..TEMP_FILTER_SIZE |-> 0]
    /\ filter_index = 0 /\ filter_count = 0 /\ filter_sum = 0
    /\ adc_ready = FALSE /\ adc_started = FALSE
    /\ g_output = [temp_4mA |-> F_MINUS_200, temp_20mA |-> F_HUNDRED,
                   current_mA |-> OUTPUT_MIN_CURRENT]
    /\ dac = [current_source |-> 0, current_adj_10uA |-> F_ZERO, current_adj_17uA |-> F_ZERO,
              output_current_mA |-> OUTPUT_MIN_CURRENT, target_current |-> 0]
    /\ lcd = [temperature |-> 0, voltage |-> 0, output_current |-> OUTPUT_MIN_CURRENT,
              current_src |-> 0, status |-> "Ready"]
    /\ panel = lcd
    /\ parse_state = "HEAD"
    /\ rx_frame = [head |-> 0, cmd |-> 0, len |-> 0, data |-> [i \in 0..255 |-> 0], crc |-> 0]
    /\ data_index = 0
    /\ rxq = <<>> /\ raw = <<>>
    /\ tx = <<>> /\ dispatched = <<>> /\ flash_ops = <<>>
    /\ lcd_log = <<>> /\ dac_log = <<>> /\ adc_log = <<>>
    /\ step = "reset"
    /\ host_sends = 0 /\ host_last = NoMessage /\ disp_since = <<>>
    /\ saved = <<>>
    /\ call = NoCall
    /\ acq = NoSamples
    /\ ring = EmptyRing

Init == InitWith(InitChoices)

(***************************************************************************)
(* main.c                                                                  *)
(***************************************************************************)
App_Init(s) ==
    LET s1 == SVC_LCD_SetStatus(SVC_USB_Init(SVC_LCD_Init(SVC_DAC_Init(s))), "Starting...")
        s2 == APP_Comm_Init(APP_Output_Init(APP_Temp_Init(APP_Param_Init(s1))))
        s3 == SVC_LCD_SetCurrentSource(SVC_LCD_SetStatus(s2, "Ready"),
                                       s2.g_param.current_source)
    IN  APP_Temp_Start(s3)

\* a tail of App_Process that drives the output whether measuring or not
RefreshAlways(s) == APP_Output_UpdateCurrent(s, s.g_temp.temperature_C)

\* a tail of App_Process that drives again the current computed earlier
RefreshStale(s) ==
    IF s.g_temp.running # 0 THEN APP_Output_SetCurrent(s, s.g_output.current_mA) ELSE s

\* the tail of App_Process: the output is driven again while measuring
OutputRefresh(s) ==
    IF s.g_temp.running # 0 THEN APP_Output_UpdateCurrent(s, s.g_temp.temperature_C) ELSE s

\* TRUE when taking this byte makes the parser run a save
WillSave(s, byte) ==
    /\ s.parse_state = "TAIL" /\ byte = FRAME_TAIL
    /\ s.rx_frame.cmd = CMD_SAVE_PARAM
    /\ APP_Comm_CRC16(CrcBuf(s.rx_frame)) = s.rx_frame.crc

Ghosts == <<host_sends, host_last>>

InRing(s, x) == \E i \in 1..TEMP_SAMPLE_COUNT : s.sample_buffer[i] = x
NotInRing(s, q) == SelectSeq(q, LAMBDA x : ~InRing(s, x))

\* the samples after a call of APP_Temp_Process in state s: a sample that is
\* read joins both lists, the Filtering phase takes what the ring holds, and
\* the Outputting phase enters Sampling again
AcqProcess(a, s) ==
    IF s.g_temp.running = 0 THEN a
    ELSE IF s.g_temp.state = "SAMPLING" /\ SVC_ADC_IsReady(s)
    THEN [fresh |-> Append(a.fresh, s.adc_mv), unfiltered |-> Append(a.unfiltered, s.adc_mv)]
    ELSE IF s.g_temp.state = "FILTERING"
    THEN [a EXCEPT !.unfiltered = NotInRing(s, @)]
    ELSE IF s.g_temp.state = "OUTPUTTING"
    THEN [a EXCEPT !.fresh = <<>>]
    ELSE a

\* the samples after a call of APP_Temp_Start: Sampling is entered
AcqStart(a) == [a EXCEPT !.fresh = <<>>]

Starts(frames) == \E i \in 1..Len(frames) : frames[i].cmd = CMD_START_ACQ

Boot ==
    /\ pc = "boot"
    /\ Commit(App_Init(Begin))
    /\ pc' = "temp" /\ step' = "Boot"
    /\ disp_since' = disp_since
    /\ acq' = AcqStart(acq)
    /\ UNCHANGED <<Ghosts, saved, call, ring>>

\* App_Process, first call: APP_Temp_Process
TempStep ==
    /\ pc = "temp"
    /\ Commit(APP_Temp_Process(Begin))
    /\ pc' = "comm" /\ step' = "TempStep"
    /\ acq' = AcqProcess(acq, Cur)
    /\ UNCHANGED <<Ghosts, disp_since, saved, call, ring>>

\* APP_Comm_Process, one turn of its loop: SVC_USB_ReadByte then ParseByte
CommByte ==
    /\ pc = "comm" /\ rxq # <<>>
    /\ \E fault \in (IF WillSave(Cur, Head(rxq)) THEN Faults ELSE {NoFault}) :
         \E s \in {ParseByte([Begin EXCEPT !.rxq = Tail(@)], Head(rxq), fault)} :
             /\ Commit(s)
             /\ disp_since' = disp_since \o s.dispatched
             /\ saved' = IF ~WillSave(Cur, Head(rxq)) THEN saved
                         ELSE IF s.tx = <<EncodeFrame(CMD_ACK, <<STATUS_OK>>)>>
                         THEN <<g_param>>
                         ELSE <<>>
             /\ acq' = IF Starts(s.dispatched) THEN AcqStart(acq) ELSE acq
    /\ pc' = "comm" /\ step' = "CommByte"
    /\ UNCHANGED <<Ghosts, call, ring>>

\* APP_Comm_Process returns: SVC_USB_ReadByte found the ring empty
CommDone ==
    /\ pc = "comm" /\ rxq = <<>>
    /\ Commit(Begin)
    /\ pc' = "lcd" /\ step' = "CommDone"
    /\ UNCHANGED <<Ghosts, disp_since, saved, call, acq, ring>>

LcdStep ==
    /\ pc = "lcd"
    /\ \E elapsed \in BOOLEAN : Commit(SVC_LCD_Update(Begin, elapsed))
    /\ pc' = "out" /\ step' = "LcdStep"
    /\ UNCHANGED <<Ghosts, disp_since, saved, call, acq, ring>>

OutStep ==
    /\ pc = "out"
    /\ Commit(OutputRefresh(Begin))
    /\ pc' = "temp" /\ step' = "OutStep"
    /\ UNCHANGED <<Ghosts, disp_since, saved, call, acq, ring>>

(***************************************************************************)
(* Interrupts                                                              *)
(***************************************************************************)
\* the USB receive interrupt: the host's bytes enter the ring.  The main loop reads
\* the ring only in APP_Comm_Process, so an arrival earlier in the loop pass is
\* seen there exactly as one at its start; arrivals are taken at that point, and
\* the host sends again only once the ring has been read empty.
HostSendUpTo(max) ==
    /\ pc = "comm" /\ rxq = <<>> /\ host_sends < max
    /\ \E m \in HostMessages :
         /\ Commit([Begin EXCEPT !.rxq = SVC_USB_RxCallback(@, m.bytes)])
         /\ host_last' = m
    /\ host_sends' = host_sends + 1
    /\ disp_since' = <<>>
    /\ step' = "HostSend"
    /\ UNCHANGED <<pc, saved, call, acq, ring>>

HostSend == HostSendUpTo(MaxHostSends)

\* the ADC's data-ready line falls: the conversion started earlier is complete.
\* The flag is read only by APP_Temp_Process, so the edge is taken just before it.
AdcReady(cycles) ==
    /\ pc = "temp" /\ adc_started /\ ~adc_ready
    /\ g_temp.sample_count < cycles
    /\ Commit([Begin EXCEPT !.adc_ready = TRUE])
    /\ step' = "AdcDrdy"
    /\ UNCHANGED <<pc, Ghosts, disp_since, saved, call, acq, ring>>

AdcDrdy == AdcReady(MaxCycles)

\* the whole device: the main loop, one host transmission, the converter
Next ==
    \/ Boot
    \/ TempStep
    \/ CommByte
    \/ CommDone
    \/ LcdStep
    \/ OutStep
    \/ HostSend
    \/ AdcDrdy

Spec == Init /\ [][Next]_vars

\* a conversation: several host transmissions, while the converter stays silent
HostTalk == HostSendUpTo(MaxTalk)

NextTalk ==
    \/ Boot
    \/ TempStep
    \/ CommByte
    \/ CommDone
    \/ LcdStep
    \/ OutStep
    \/ HostTalk

SpecTalk == Init /\ [][NextTalk]_vars

\* a loop-back test: the host returns frames made by the device's own encoders
EchoCmds == {CMD_GET_DEVICE_ID, CMD_SET_CURRENT_SRC, FRAME_TAIL, FRAME_HEAD, CMD_ACK, 255}
EchoLens == {0, 1, 4, 16, 255}
EchoPayloads ==
    { [i \in 1..n |-> (7 * i + n) % 256] : n \in EchoLens }
    \cup { <<FRAME_HEAD, FRAME_TAIL>>, <<FRAME_TAIL, FRAME_HEAD, FRAME_TAIL>> }
EchoStatuses ==
    {STATUS_OK, STATUS_INVALID_CMD, STATUS_INVALID_PARAM, STATUS_CRC_ERROR, STATUS_FLASH_ERROR}

\* what an encoder hands to the transport
Sent(s) == s.tx[1]

EchoFrames ==
    { Msg("echo", <<c, d>>, Sent(APP_Comm_SendData([tx |-> <<>>], c, d))) :
        c \in EchoCmds, d \in EchoPayloads }
    \cup { Msg("echo", <<CMD_ACK, <<st>>>>, Sent(APP_Comm_SendAck([tx |-> <<>>], c, st))) :
             c \in EchoCmds, st \in EchoStatuses }

HostEcho ==
    /\ pc = "comm" /\ rxq = <<>> /\ parse_state = "HEAD" /\ host_sends < MaxEcho
    /\ \E m \in EchoFrames :
         /\ Commit([Begin EXCEPT !.rxq = SVC_USB_RxCallback(@, m.bytes)])
         /\ host_last' = m
    /\ host_sends' = host_sends + 1
    /\ disp_since' = <<>>
    /\ step' = "HostEcho"
    /\ UNCHANGED <<pc, saved, call, acq, ring>>

NextEcho ==
    \/ Boot
    \/ TempStep
    \/ CommByte
    \/ CommDone
    \/ LcdStep
    \/ OutStep
    \/ HostEcho

SpecEcho == Init /\ [][NextEcho]_vars

\* a session on the parameter store: the host sets, saves, loads and resets
StoreCommands ==
    { <<CMD_SAVE_PARAM, <<>>>>, <<CMD_LOAD_PARAM, <<>>>>, <<CMD_RESET_DEFAULT, <<>>>>,
      <<CMD_SET_CURRENT_SRC, <<1>>>>,
      <<CMD_SET_CURRENT_ADJ_10, F_TWO>>, <<CMD_SET_CURRENT_ADJ_17, F_NAN>>,
      <<CMD_SET_4MA_TEMP, F_ONE>>, <<CMD_SET_20MA_TEMP, F_FIFTY>> }

StoreMessages == { Msg("good", c, EncodeFrame(c[1], c[2])) : c \in StoreCommands }

HostStore ==
    /\ pc = "comm" /\ rxq = <<>> /\ host_sends < MaxStore
    /\ \E m \in StoreMessages :
         /\ Commit([Begin EXCEPT !.rxq = SVC_USB_RxCallback(@, m.bytes)])
         /\ host_last' = m
    /\ host_sends' = host_sends + 1
    /\ disp_since' = <<>>
    /\ step' = "HostStore"
    /\ UNCHANGED <<pc, saved, call, acq, ring>>

NextStore ==
    \/ Boot
    \/ TempStep
    \/ CommByte
    \/ CommDone
    \/ LcdStep
    \/ OutStep
    \/ HostStore

SpecStore == Init /\ [][NextStore]_vars

\* a disturbance of the stored record: one bit of the bytes the checksum is taken
\* over changes after a save has returned 0, and the host asks for a load
UpsetCommands == { <<CMD_SAVE_PARAM, <<>>>>, <<CMD_LOAD_PARAM, <<>>>> }

UpsetMessages == { Msg("good", c, EncodeFrame(c[1], c[2])) : c \in UpsetCommands }

\* the bytes of the record before its crc field
CoveredBytes == 1..(PARAM_SIZE - 4)

FlipBit(image, i, k) == [image EXCEPT ![i] = Xor(@, Pow2(k))]

HostUpset ==
    /\ pc = "comm" /\ rxq = <<>> /\ host_sends < MaxUpset
    /\ \E m \in UpsetMessages :
         /\ Commit([Begin EXCEPT !.rxq = SVC_USB_RxCallback(@, m.bytes)])
         /\ host_last' = m
    /\ host_sends' = host_sends + 1
    /\ disp_since' = <<>>
    /\ step' = "HostUpset"
    /\ UNCHANGED <<pc, saved, call, acq, ring>>

FlashUpset ==
    /\ pc = "comm" /\ rxq = <<>>
    /\ Len(saved) = 1
    /\ \E i \in CoveredBytes, k \in 0..7 :
         /\ Commit([Begin EXCEPT !.flash = FlipBit(@, i, k)])
         /\ saved' = Append(saved, <<i, k>>)
    /\ step' = "FlashUpset"
    /\ UNCHANGED <<pc, Ghosts, disp_since, call, acq, ring>>

NextUpset ==
    \/ Boot
    \/ TempStep
    \/ CommByte
    \/ CommDone
    \/ LcdStep
    \/ OutStep
    \/ HostUpset
    \/ FlashUpset

SpecUpset == Init /\ [][NextUpset]_vars

\* the output mapper on its own: after initialisation its functions are called
\* directly, with set-points, temperatures and currents of every kind
SpanFloats == {F_MINUS_200, F_HUNDRED, F_ZERO, F_FIFTY, F_NAN}
CallTemps == {-30000, -20000, -5000, 0, 33, 2500, 10000, 25000, NaN}
CallCurrents == {0, 399, 400, 1200, 2000, 2001, NaN}

Called(fn, args, out) == [fn |-> fn, args |-> args, out |-> out]

Set4Call ==
    /\ pc = "temp"
    /\ \E temp \in SpanFloats :
         Commit(APP_Output_Set4mATemp(Begin, temp))
    /\ call' = NoCall
    /\ step' = "Set4Call"
    /\ UNCHANGED <<pc, Ghosts, disp_since, saved, acq, ring>>

Set20Call ==
    /\ pc = "temp"
    /\ \E temp \in SpanFloats :
         Commit(APP_Output_Set20mATemp(Begin, temp))
    /\ call' = NoCall
    /\ step' = "Set20Call"
    /\ UNCHANGED <<pc, Ghosts, disp_since, saved, acq, ring>>

CalcCall ==
    /\ pc = "temp"
    /\ \E temperature \in CallTemps :
         /\ Commit(Begin)
         /\ call' = Called("APP_Output_CalcCurrent", <<temperature>>,
                           <<APP_Output_CalcCurrent(Begin, temperature)>>)
    /\ step' = "CalcCall"
    /\ UNCHANGED <<pc, Ghosts, disp_since, saved, acq, ring>>

UpdateCall ==
    /\ pc = "temp"
    /\ \E temperature \in CallTemps :
         Commit(APP_Output_UpdateCurrent(Begin, temperature))
    /\ call' = NoCall
    /\ step' = "UpdateCall"
    /\ UNCHANGED <<pc, Ghosts, disp_since, saved, acq, ring>>

SetCurrentCall ==
    /\ pc = "temp"
    /\ \E current_mA \in CallCurrents :
         Commit(APP_Output_SetCurrent(Begin, current_mA))
    /\ call' = NoCall
    /\ step' = "SetCurrentCall"
    /\ UNCHANGED <<pc, Ghosts, disp_since, saved, acq, ring>>

NextMapper ==
    \/ Boot
    \/ Set4Call
    \/ Set20Call
    \/ CalcCall
    \/ UpdateCall
    \/ SetCurrentCall

SpecMapper == Init /\ [][NextMapper]_vars

\* the acquisition pipeline under start and stop commands: every conversion
\* finds the probe voltage 1 mV higher than the one before
PipeDrift == 100

PipeCommands == { <<CMD_START_ACQ, <<>>>>, <<CMD_STOP_ACQ, <<>>>> }
PipeMessages == { Msg("good", c, EncodeFrame(c[1], c[2])) : c \in PipeCommands }

HostPipe ==
    /\ pc = "comm" /\ rxq = <<>> /\ host_sends < MaxPipeSends
    /\ \E m \in PipeMessages :
         /\ Commit([Begin EXCEPT !.rxq = SVC_USB_RxCallback(@, m.bytes)])
         /\ host_last' = m
    /\ host_sends' = host_sends + 1
    /\ disp_since' = <<>>
    /\ step' = "HostSend"
    /\ UNCHANGED <<pc, saved, call, acq, ring>>

AdcSample ==
    /\ pc = "temp" /\ adc_started /\ ~adc_ready
    /\ g_temp.sample_count < MaxPipeCycles
    /\ Commit([Begin EXCEPT !.adc_ready = TRUE, !.adc_mv = @ + PipeDrift])
    /\ step' = "AdcDrdy"
    /\ UNCHANGED <<pc, Ghosts, disp_since, saved, call, acq, ring>>

NextPipe ==
    \/ Boot
    \/ TempStep
    \/ CommByte
    \/ CommDone
    \/ LcdStep
    \/ OutStep
    \/ HostPipe
    \/ AdcSample

SpecPipe == Init /\ [][NextPipe]_vars

\* the acquisition left to run: no host, the main loop never stops, and every
\* conversion that is started becomes ready in the end, until the converter
\* has answered MaxLiveCycles cycles and answers no more
AdcDrdyLive == AdcReady(MaxLiveCycles)

NextLive ==
    \/ Boot
    \/ TempStep
    \/ CommDone
    \/ LcdStep
    \/ OutStep
    \/ AdcDrdyLive

\* the steps of NextLive seen from outside: main() passes from one call of its
\* loop to the next, and the converter raises DRDY on a started conversion.
\* The loop never blocks, so it is weakly fair; DRDY is looked at once per
\* turn of the loop, so the converter is strongly fair
MainLoopTurns == pc' \in {"temp", "comm", "lcd", "out"} /\ pc' # pc
ConversionEnds ==
    /\ pc = "temp" /\ adc_started /\ ~adc_ready
    /\ g_temp.sample_count < MaxLiveCycles
    /\ adc_ready' = TRUE /\ step' = "AdcDrdy"

SpecLive ==
    /\ Init /\ [][NextLive]_vars
    /\ WF_pc(MainLoopTurns)
    /\ SF_adc_ready(ConversionEnds)

\* the receive ring on its own: the USB interrupt calls the callback, which
\* runs to completion, between any two statements of SVC_USB_ReadByte. The
\* k-th byte the ring stores has the value ByteOf(k); the first callback brings
\* as many bytes as the ring holds, or one more, the later ones a few
ByteOf(k) == k % 251
Burst(from, len) == [i \in 1..len |-> ByteOf(from + i - 1)]

FirstBursts == {USB_RX_BUFFER_SIZE - 1, USB_RX_BUFFER_SIZE}
LaterBursts == {1, 3}

InitRing == InitWith({<<ErasedImage, ValidTable, 150000>>})

RxInterrupt ==
    /\ pc # "boot" /\ ring.callbacks < MaxRingCallbacks
    /\ \E len \in (IF ring.callbacks = 0 THEN FirstBursts ELSE LaterBursts) :
         ring' = RingRxCallback(ring, Burst(ring.stored, len))
    /\ step' = "RxInterrupt"
    /\ UNCHANGED <<pc, progVars, Ghosts, disp_since, saved, call, acq>>

ReadTest ==
    /\ pc # "boot" /\ ring.at = "out"
    /\ ring' = ReadByteTest(ring)
    /\ step' = "ReadTest"
    /\ UNCHANGED <<pc, progVars, Ghosts, disp_since, saved, call, acq>>

ReadLoad ==
    /\ ring.at = "load"
    /\ ring' = ReadByteLoad(ring)
    /\ step' = "ReadLoad"
    /\ UNCHANGED <<pc, progVars, Ghosts, disp_since, saved, call, acq>>

ReadAdvance ==
    /\ ring.at = "advance"
    /\ ring' = ReadByteAdvance(ring)
    /\ step' = "ReadAdvance"
    /\ UNCHANGED <<pc, progVars, Ghosts, disp_since, saved, call, acq>>

NextRing ==
    \/ Boot
    \/ RxInterrupt
    \/ ReadTest
    \/ ReadLoad
    \/ ReadAdvance

SpecRing == InitRing /\ [][NextRing]_vars

\* the calibration table on its own: the table sector
\* holds one of the tables below, and after initialisation the lookup and the
\* verification are called directly
ExampleTable ==
    [magic |-> TEMP_TABLE_MAGIC, point_count |-> 3,
     points |-> <<Pt(10000, 0), Pt(5000, 1000), Pt(0, 2000)>>]

OnePointTable ==
    [magic |-> TEMP_TABLE_MAGIC, point_count |-> 1, points |-> <<Pt(5000, 1000)>>]

\* six points, unevenly spaced, with a flat stretch of temperature
SixPointTable ==
    [magic |-> TEMP_TABLE_MAGIC, point_count |-> 6,
     points |-> <<Pt(15000, 100), Pt(10000, 700), Pt(7500, 700), Pt(5000, 1000),
                  Pt(2500, 1900), Pt(0, 2000)>>]

\* descending voltages whose temperatures fall and rise
WavyTable ==
    [magic |-> TEMP_TABLE_MAGIC, point_count |-> 4,
     points |-> <<Pt(10000, 1000), Pt(7500, 0), Pt(2500, 3000), Pt(0, 500)>>]

\* sectors that fail verification, each with point data behind its header
BadMagicTable == [ExampleTable EXCEPT !.magic = <<0, 0, 0, 0>>]
EmptyTable == [ExampleTable EXCEPT !.point_count = 0]
OverfullTable == [ExampleTable EXCEPT !.point_count = TEMP_TABLE_MAX_POINTS + 1]

TestTables ==
    { ValidTable, ExampleTable, OnePointTable, SixPointTable, WavyTable,
      BadMagicTable, EmptyTable, OverfullTable, ErasedTable }

TableChoices == { <<ParamBytes(StoredParam), t, 150000>> : t \in TestTables }

InitTable == InitWith(TableChoices)

\* voltages at, between, above and below the points of the tables
CallVoltages ==
    { -100, 0, 1, 1250, 2500, 3333, 5000, 6000, 7500, 8750, 10000, 12500, 15000,
      16000, 100000, 125000, 150000, 175000, 200000, 250000 }

VerifyCall ==
    /\ pc = "temp"
    /\ Commit(Begin)
    /\ call' = Called("APP_Temp_TableVerify", <<>>, <<APP_Temp_TableVerify(table)>>)
    /\ step' = "VerifyCall"
    /\ UNCHANGED <<pc, Ghosts, disp_since, saved, acq, ring>>

\* a lookup; the record of the call keeps the voltage and the result of the
\* lookup made by the step before, when that step was a lookup
LookupCall ==
    /\ pc = "temp"
    /\ \E voltage \in CallVoltages :
         /\ Commit(Begin)
         /\ call' = [fn |-> "APP_Temp_TableLookup", args |-> <<voltage>>,
                     out |-> <<APP_Temp_TableLookup(table, voltage)>>,
                     before |-> IF call.fn = "APP_Temp_TableLookup"
                                THEN <<call.args[1], call.out[1]>> ELSE <<>>]
    /\ step' = "LookupCall"
    /\ UNCHANGED <<pc, Ghosts, disp_since, saved, acq, ring>>

NextTable ==
    \/ Boot
    \/ VerifyCall
    \/ LookupCall

SpecTable == InitTable /\ [][NextTable]_vars

\* the probe check in the pipeline: the main loop runs without a host, the
\* probe voltage is any of those below, and it moves once, between the first
\* acquisition cycle and the second
\* voltages at and beside the thresholds of the probe check
ProbeVoltages ==
    { 0, PROBE_SHORT_VOLTAGE - 1, PROBE_SHORT_VOLTAGE, PROBE_SHORT_VOLTAGE + 1,
      PROBE_MIN_VOLTAGE - 1, PROBE_MIN_VOLTAGE, PROBE_MIN_VOLTAGE + 1, 150000,
      PROBE_MAX_VOLTAGE - 1, PROBE_MAX_VOLTAGE, PROBE_MAX_VOLTAGE + 1,
      PROBE_OPEN_VOLTAGE - 1, PROBE_OPEN_VOLTAGE, PROBE_OPEN_VOLTAGE + 1, -5000 }

ProbeChoices == { <<ParamBytes(StoredParam), ValidTable, v>> : v \in ProbeVoltages }

InitProbe == InitWith(ProbeChoices)

AdcDrdyProbe == AdcReady(MaxProbeCycles)

ProbeMoves ==
    /\ pc = "temp" /\ g_temp.state = "SAMPLING" /\ sample_index = 0
    /\ g_temp.sample_count = 1 /\ adc_started /\ ~adc_ready
    /\ \E v \in ProbeVoltages \ {adc_mv} :
         Commit([Begin EXCEPT !.adc_mv = v])
    /\ step' = "ProbeMoves"
    /\ UNCHANGED <<pc, Ghosts, disp_since, saved, call, acq, ring>>

NextProbe ==
    \/ Boot
    \/ TempStep
    \/ CommDone
    \/ LcdStep
    \/ OutStep
    \/ AdcDrdyProbe
    \/ ProbeMoves

SpecProbe == InitProbe /\ [][NextProbe]_vars

TypeOK ==
    /\ pc \in {"boot", "temp", "comm", "lcd", "out"}
    /\ parse_state \in {"HEAD", "CMD", "LEN", "DATA", "CRC_L", "CRC_H", "TAIL"}
    /\ \A i \in 1..Len(rxq) : rxq[i] \in Byte

(***************************************************************************)
(* Properties                                                              *)
(***************************************************************************)
\* everything a command could change: storage, records, pipeline, mapper, hardware
DeviceState ==
    <<flash, table, g_param, g_temp, sample_buffer, sample_index, filter_buffer,
      filter_index, filter_count, filter_sum, adc_mv, adc_ready, adc_started,
      g_output, dac, lcd, panel>>

NoHardwareOps == flash_ops = <<>> /\ lcd_log = <<>> /\ dac_log = <<>> /\ adc_log = <<>>

\* r is head, cmd, len, len payload bytes, CRC low, CRC high, tail, and the CRC is
\* that of cmd + len + payload
WellFormed(r) ==
    /\ Len(r) >= 6
    /\ r[1] = FRAME_HEAD
    /\ r[3] = Len(r) - 6
    /\ r[Len(r)] = FRAME_TAIL
    /\ r[Len(r) - 2] + 256 * r[Len(r) - 1] = APP_Comm_CRC16(SubSeq(r, 2, Len(r) - 3))

FrameOf(r) == [cmd |-> r[2], len |-> r[3], data |-> SubSeq(r, 4, Len(r) - 3)]

\* r is an acknowledgment frame with this status
IsAck(r, status) == WellFormed(r) /\ r[2] = CMD_ACK /\ r[3] = 1 /\ r[4] = status

\* C1: the parser hands a frame to ProcessFrame only when the bytes taken since the
\* head byte end in 0x55 and carry, low byte first, the CRC16 of command + length +
\* payload, and then it hands over exactly those fields; a byte taken in PARSE_TAIL
\* that completes anything else dispatches nothing and changes no device state.
C1_DispatchOnlyValidated ==
    [][ step' = "CommByte" =>
          /\ dispatched' # <<>> =>
                (WellFormed(raw') /\ dispatched' = <<FrameOf(raw')>>)
          /\ (parse_state = "TAIL" /\ ~WellFormed(raw')) =>
                (dispatched' = <<>> /\ DeviceState' = DeviceState /\ NoHardwareOps')
      ]_vars

\* a frame with a payload has just been dispatched
C1_Witness ==
    step = "CommByte" /\ dispatched # <<>> /\ Len(raw) > 6 /\ WellFormed(raw)

\* C2: a frame made by APP_Comm_SendData from (cmd, payload), or by APP_Comm_SendAck
\* (which encodes CMD_ACK and the status), fed to the parser in PARSE_HEAD, is
\* dispatched once its last byte is taken, not before, with the command code, length
\* and payload that were encoded.
C2_EncodeDecodeRoundTrip ==
    host_last.kind = "echo" =>
        IF rxq = <<>>
        THEN disp_since = <<[cmd |-> host_last.cmd, len |-> Len(host_last.data),
                             data |-> host_last.data]>>
        ELSE disp_since = <<>>

\* the longest frame has gone round
C2_Witness ==
    /\ host_last.kind = "echo" /\ rxq = <<>>
    /\ Len(host_last.data) = 255
    /\ Len(disp_since) = 1 /\ disp_since[1].data = host_last.data

\* steps in which a frame is handed to ProcessFrame
Dispatches == step' = "CommByte" /\ dispatched' # <<>>

\* the one frame of a list
Only(q) == q[1]

FloatSetCmds ==
    {CMD_SET_CURRENT_ADJ_10, CMD_SET_CURRENT_ADJ_17, CMD_SET_4MA_TEMP, CMD_SET_20MA_TEMP}

\* C3: a well-formed frame sent after whatever the host sent before (noise, a
\* truncated frame, a frame with a bad CRC or a bad tail) is dispatched exactly once,
\* with its own fields, by the time its last byte has been read.
C3_ValidFrameAfterAnyBytes ==
    (host_last.kind = "good" /\ rxq = <<>>) =>
        disp_since = <<[cmd |-> host_last.cmd, len |-> Len(host_last.data),
                        data |-> host_last.data]>>

\* payload lengths the set commands refuse
TooShort(f) ==
    \/ f.cmd \in FloatSetCmds /\ f.len < 4
    \/ f.cmd = CMD_SET_CURRENT_SRC /\ f.len < 1

\* payload lengths other than the nominal one
NotNominal(f) ==
    \/ f.cmd \in FloatSetCmds /\ f.len # 4
    \/ f.cmd = CMD_SET_CURRENT_SRC /\ f.len # 1

Refused(status) ==
    /\ Len(tx') = 1 /\ IsAck(Only(tx'), status)
    /\ DeviceState' = DeviceState /\ NoHardwareOps'

\* C4 (as the code has it): a validated set command whose payload is shorter than
\* the value it carries (fewer than 4 bytes for a float parameter, none for the
\* selector) is answered 'invalid parameter' and changes no device state; a float
\* set command with 4 or more payload bytes is accepted on its first 4 bytes.
C4_ShortPayloadRefused ==
    [][ Dispatches =>
          /\ TooShort(Only(dispatched')) => Refused(STATUS_INVALID_PARAM)
          /\ (Only(dispatched').cmd \in FloatSetCmds /\ Only(dispatched').len >= 4) =>
                (Len(tx') = 1 /\ IsAck(Only(tx'), STATUS_OK))
      ]_vars

\* a float set command with a 3-byte payload has just been refused
C4_Witness ==
    /\ step = "CommByte" /\ Len(dispatched) = 1 /\ Len(tx) = 1
    /\ Only(dispatched).cmd = CMD_SET_CURRENT_ADJ_10 /\ Only(dispatched).len = 3
    /\ IsAck(Only(tx), STATUS_INVALID_PARAM)

\* C4 as claimed: every payload length other than exactly 4 (float parameters) or
\* exactly 1 (selector) is answered 'invalid parameter' and changes nothing.
C4_AnyOtherLengthRefused ==
    [][ (Dispatches /\ NotNominal(Only(dispatched'))) => Refused(STATUS_INVALID_PARAM) ]_vars

Selectors == <<g_temp.current_src, g_param.current_source, dac.current_source>>

\* C5: the live selector, the record's selector and the selected excitation source
\* are always 0 or 1, and a set-current-source command whose selector byte is above
\* 1 is answered 'invalid parameter' and leaves all three as they were.
C5_SelectorStaysInRange ==
    /\ [](\A i \in 1..3 : Selectors[i] \in {0, 1})
    /\ [][ (/\ Dispatches
            /\ Only(dispatched').cmd = CMD_SET_CURRENT_SRC
            /\ Only(dispatched').len >= 1
            /\ Only(dispatched').data[1] > 1) =>
              (/\ Len(tx') = 1 /\ IsAck(Only(tx'), STATUS_INVALID_PARAM)
               /\ Selectors' = Selectors) ]_vars

\* selector byte 2 has just been refused, while the record holds selector 1
C5_Witness ==
    /\ step = "CommByte" /\ Len(dispatched) = 1 /\ Len(tx) = 1
    /\ Only(dispatched) = [cmd |-> CMD_SET_CURRENT_SRC, len |-> 1, data |-> <<2>>]
    /\ IsAck(Only(tx), STATUS_INVALID_PARAM)
    /\ g_param.current_source = 1

QueryCmds ==
    {CMD_GET_DEVICE_ID, CMD_GET_TEMPERATURE, CMD_GET_VOLTAGE, CMD_GET_CURRENT, CMD_GET_STATUS}

\* the commands ProcessFrame's switch handles
KnownCmds ==
    QueryCmds \cup FloatSetCmds
    \cup {CMD_SET_CURRENT_SRC, CMD_START_ACQ, CMD_STOP_ACQ,
          CMD_SAVE_PARAM, CMD_LOAD_PARAM, CMD_RESET_DEFAULT}

\* response r carries what query cmd asks for, as the device holds it before the step
Answers(cmd, r) ==
    LET pl == FrameOf(r).data
    IN  /\ WellFormed(r) /\ r[2] = cmd
        /\ CASE cmd = CMD_GET_DEVICE_ID -> pl = device_id
             [] cmd = CMD_GET_TEMPERATURE ->
                    Len(pl) = 4 /\ FloatToNum(pl) = g_temp.temperature_C
             [] cmd = CMD_GET_VOLTAGE ->
                    Len(pl) = 4 /\ FloatToNum(pl) = g_temp.filtered_voltage
             [] cmd = CMD_GET_CURRENT ->
                    Len(pl) = 4 /\ FloatToNum(pl) = g_output.current_mA
             [] cmd = CMD_GET_STATUS ->
                    /\ Len(pl) = 8
                    /\ pl[1] = g_temp.running /\ pl[2] = g_temp.current_src
                    /\ pl[3] = g_temp.probe_status /\ pl[4] = 0
                    /\ pl[5] + 256 * pl[6] + 65536 * pl[7] + 16777216 * pl[8]
                         = g_temp.sample_count

\* the step carries out mutating command f
Succeeds(f) ==
    \/ f.cmd = CMD_SET_CURRENT_SRC /\ f.len >= 1 /\ f.data[1] <= 1
    \/ f.cmd \in FloatSetCmds /\ f.len >= 4
    \/ f.cmd \in {CMD_START_ACQ, CMD_STOP_ACQ, CMD_RESET_DEFAULT}
    \/ /\ f.cmd = CMD_SAVE_PARAM
       /\ flash_ops' = <<"erase", "program">> /\ flash' = ParamBytes(g_param')
    \/ f.cmd = CMD_LOAD_PARAM /\ VerifyParam(ParamFromBytes(flash)) = 0

\* C6: the step that dispatches a frame hands exactly one well-formed response to the
\* transport; a mutating command that is carried out is answered by an acknowledgment
\* with status OK, a query by a data frame with the query's code carrying the
\* value(s) the device holds at that moment.
C6_OneResponsePerFrame ==
    [][ Dispatches =>
          /\ Len(dispatched') = 1
          /\ Len(tx') = 1 /\ WellFormed(Only(tx'))
          /\ Only(dispatched').cmd \in QueryCmds =>
                (Answers(Only(dispatched').cmd, Only(tx')) /\ DeviceState' = DeviceState)
          /\ Succeeds(Only(dispatched')) => IsAck(Only(tx'), STATUS_OK)
      ]_vars

\* a temperature query has just been answered with a measured value
C6_Witness ==
    /\ step = "CommByte" /\ Len(dispatched) = 1 /\ Len(tx) = 1
    /\ Only(dispatched).cmd = CMD_GET_TEMPERATURE
    /\ g_temp.sample_count > 0 /\ g_temp.temperature_C # 0
    /\ FloatToNum(FrameOf(Only(tx)).data) = g_temp.temperature_C

\* C7: a validated frame whose command code the switch does not handle is answered
\* by an 'invalid command' acknowledgment and changes no device state.
C7_UnknownCommandRefused ==
    [][ (Dispatches /\ Only(dispatched').cmd \notin KnownCmds) =>
            Refused(STATUS_INVALID_CMD) ]_vars

\* the table-download-end code has just been refused
C7_Witness ==
    /\ step = "CommByte" /\ Len(dispatched) = 1 /\ Len(tx) = 1
    /\ Only(dispatched).cmd = CMD_LOAD_TABLE_END
    /\ IsAck(Only(tx), STATUS_INVALID_CMD)

\* response r tells which command it is about: in its command field or in a payload
\* byte after the status
NamesCommand(r, cmd) ==
    r[2] = cmd \/ \E i \in 5..(Len(r) - 3) : r[i] = cmd

\* C8: a frame with the right tail byte whose CRC does not match makes the parser
\* send exactly one response, which carries the 'CRC error' status and names the
\* command code of the rejected frame.
C8_CrcErrorAckNamesCommand ==
    [][ (/\ step' = "CommByte" /\ parse_state = "TAIL"
         /\ raw'[Len(raw')] = FRAME_TAIL /\ ~WellFormed(raw')) =>
           (/\ Len(tx') = 1 /\ WellFormed(Only(tx'))
            /\ Only(tx')[4] = STATUS_CRC_ERROR
            /\ NamesCommand(Only(tx'), raw'[2])) ]_vars

\* C9: the stored record is erased or programmed only in the step that dispatches a
\* save command; no other step of the program touches the storage.
C9_StorageChangesOnlyOnSave ==
    [][ (flash' # flash \/ flash_ops' # <<>>) =>
            (Dispatches /\ Only(dispatched').cmd = CMD_SAVE_PARAM) ]_vars

\* a set-point set earlier has just been saved
C9_Witness ==
    /\ step = "CommByte" /\ Len(dispatched) = 1
    /\ Only(dispatched).cmd = CMD_SAVE_PARAM
    /\ flash_ops = <<"erase", "program">>
    /\ flash = ParamBytes(g_param)
    /\ g_param.temp_20mA = F_FIFTY /\ g_param.current_source = 0

\* C10: a load command whose stored record has a wrong magic, a version above
\* PARAM_VERSION or a checksum that does not match is answered with an error and
\* leaves the record in memory as it was; one answered OK leaves the record in
\* memory equal to the stored bytes; the record in memory is never anything but one
\* of the two, and the storage is not changed.
C10_LoadAllOrNothing ==
    [][ (Dispatches /\ Only(dispatched').cmd = CMD_LOAD_PARAM) =>
          LET stored == ParamFromBytes(flash)
          IN  /\ Len(tx') = 1
              /\ (\/ stored.magic # PARAM_MAGIC
                  \/ stored.version > PARAM_VERSION
                  \/ stored.crc # APP_Comm_CRC16(SubSeq(flash, 1, PARAM_SIZE - 4))) =>
                    (IsAck(Only(tx'), STATUS_FLASH_ERROR) /\ g_param' = g_param)
              /\ IsAck(Only(tx'), STATUS_OK) => ParamBytes(g_param') = flash
              /\ g_param' = g_param \/ ParamBytes(g_param') = flash
              /\ flash' = flash
      ]_vars

\* a load has just failed on a record with a bad checksum, and the selector set
\* before it is still in the record in memory
C10_Witness ==
    /\ step = "CommByte" /\ Len(dispatched) = 1 /\ Len(tx) = 1
    /\ Only(dispatched).cmd = CMD_LOAD_PARAM
    /\ IsAck(Only(tx), STATUS_FLASH_ERROR)
    /\ ParamFromBytes(flash).magic = PARAM_MAGIC
    /\ g_param.current_source = 1

\* the values a host can set in the record: selector, trims, set-points
Settings(p) ==
    <<p.current_source, p.current_adj_10uA, p.current_adj_17uA, p.temp_4mA, p.temp_20mA>>

\* the step dispatches a frame with this command code
Runs(cmd) == Dispatches /\ Only(dispatched').cmd = cmd

\* C11: when a save has returned 0 and the storage has not been changed since, a load
\* is answered OK and leaves in the record in memory the selector, the trims and the
\* set-points, byte for byte, that it held when the save was called, whatever was
\* set or reset in between.
C11_SaveLoadRoundTrip ==
    [][ (Runs(CMD_LOAD_PARAM) /\ Len(saved) = 1) =>
            (/\ Len(tx') = 1 /\ IsAck(Only(tx'), STATUS_OK)
             /\ Settings(g_param') = Settings(saved[1])) ]_vars

\* a load has just brought back the set-point saved before another one was set
C11_Witness ==
    /\ step = "CommByte" /\ Len(dispatched) = 1 /\ Len(tx) = 1
    /\ Only(dispatched).cmd = CMD_LOAD_PARAM /\ IsAck(Only(tx), STATUS_OK)
    /\ Len(saved) = 1 /\ Settings(g_param) = Settings(saved[1])
    /\ g_param.temp_4mA = F_ZERO /\ g_output.temp_4mA = F_ONE

\* C12: a save command runs one erase and, only when the erase succeeded, one write,
\* never a second attempt; it is answered OK only when the stored bytes are the
\* record's, and with the flash error status whenever the erase failed or the write
\* or its read-back failed; a failed save leaves the selector, the trims and the
\* set-points in memory as they were.
C12_SaveReportsFailure ==
    [][ Runs(CMD_SAVE_PARAM) =>
          /\ Len(tx') = 1
          /\ IsAck(Only(tx'), STATUS_OK) \/ IsAck(Only(tx'), STATUS_FLASH_ERROR)
          /\ flash_ops' \in {<<"erase">>, <<"erase", "program">>}
          /\ flash_ops' = <<"erase">> => flash' = flash
          /\ (flash_ops' = <<"erase">> \/ flash' # ParamBytes(g_param')) =>
                (/\ IsAck(Only(tx'), STATUS_FLASH_ERROR)
                 /\ Settings(g_param') = Settings(g_param))
      ]_vars

\* a save has just failed on the read-back of a programmed record, and the selector
\* loaded at boot is still in memory
C12_Witness ==
    /\ step = "CommByte" /\ Len(dispatched) = 1 /\ Len(tx) = 1
    /\ Only(dispatched).cmd = CMD_SAVE_PARAM
    /\ IsAck(Only(tx), STATUS_FLASH_ERROR)
    /\ flash_ops = <<"erase", "program">>
    /\ flash # ParamBytes(g_param) /\ flash # ErasedImage
    /\ g_param.current_source = 1

\* C13: a save command answered with the flash error status leaves the stored record
\* as it was before the command, so that a load after it gives what a load before it
\* would have given.
C13_FailedSaveKeepsStored ==
    [][ (/\ Runs(CMD_SAVE_PARAM)
         /\ Len(tx') = 1 /\ IsAck(Only(tx'), STATUS_FLASH_ERROR)) =>
            (/\ flash' = flash
             /\ APP_Param_Load(Cur').g_param = APP_Param_Load([Cur' EXCEPT !.flash = flash]).g_param)
      ]_vars

\* C14: after a save that returned 0, a change of any one bit of the stored bytes the
\* checksum is taken over (magic, version, reserved, selector, trims, set-points)
\* makes the next load answer with the flash error status and leave the record in
\* memory as it was.
C14_SingleBitFlipCaught ==
    [][ (Runs(CMD_LOAD_PARAM) /\ Len(saved) = 2) =>
            (/\ Len(tx') = 1 /\ IsAck(Only(tx'), STATUS_FLASH_ERROR)
             /\ g_param' = g_param) ]_vars

\* a load has just refused a record whose version went from 0x0100 to 0 by one bit:
\* magic and version pass, the checksum does not
C14_Witness ==
    /\ step = "CommByte" /\ Len(dispatched) = 1 /\ Len(tx) = 1
    /\ Only(dispatched).cmd = CMD_LOAD_PARAM
    /\ IsAck(Only(tx), STATUS_FLASH_ERROR)
    /\ Len(saved) = 2 /\ saved[2] = <<6, 0>>
    /\ ParamFromBytes(flash).version = 0
    /\ Settings(g_param) = Settings(saved[1])

\* -1.0 <= f <= 1.0
WithinOne(f) == ~FIsNaN(f) /\ ~FGt(f, F_ONE) /\ ~FLt(f, F_MINUS_ONE)

\* C15: after initialisation and whatever trims are set, loaded, reset or saved, both
\* current-source trims of the record in memory lie in [-1, +1].
C15_TrimsWithinOne ==
    pc # "boot" => (WithinOne(g_param.current_adj_10uA) /\ WithinOne(g_param.current_adj_17uA))

\* C16: a reset command leaves in the record in memory the built-in magic and version,
\* reserved 0, selector 0, both trims 0.0, the set-points -200 and 100, and a checksum
\* equal to the CRC16 of the record's bytes before the crc field, so that the record,
\* saved and loaded, passes verification; the storage is not touched.
C16_ResetGivesDefaults ==
    [][ Runs(CMD_RESET_DEFAULT) =>
          LET stored == APP_Param_Save(Cur', NoFault)
          IN  /\ g_param'.magic = PARAM_MAGIC /\ g_param'.version = PARAM_VERSION
              /\ g_param'.reserved = 0
              /\ Settings(g_param') = <<0, F_ZERO, F_ZERO, F_MINUS_200, F_HUNDRED>>
              /\ g_param'.crc = APP_Comm_CRC16(SubSeq(ParamBytes(g_param'), 1, PARAM_SIZE - 4))
              /\ APP_Param_Load_Ok(stored)
              /\ APP_Param_Load(stored).g_param = g_param'
              /\ flash' = flash /\ flash_ops' = <<>>
      ]_vars

\* a reset has just replaced a record whose 4 mA set-point had been set to 1.0 and
\* whose selector had been loaded as 1
C16_Witness ==
    /\ step = "CommByte" /\ Len(dispatched) = 1 /\ Len(tx) = 1
    /\ Only(dispatched).cmd = CMD_RESET_DEFAULT /\ IsAck(Only(tx), STATUS_OK)
    /\ g_output.temp_4mA = F_ONE /\ g_param.temp_4mA = F_MINUS_200
    /\ ParamFromBytes(flash).current_source = 1 /\ g_param.current_source = 0
    /\ g_param.crc = CalcParamCRC(DefaultParam)

\* C17: when the calibration table fails verification at initialisation, the
\* acquisition phase is Error from then on, whatever process, start and stop calls
\* and commands follow.
C17_ErrorPhaseTerminal ==
    (pc # "boot" /\ APP_Temp_TableVerify(table) # 0) => g_temp.state = "ERROR"

\* C18: in a pass of the main loop made while the probe status is open, short or out
\* of range, no step of the program recomputes the temperature (Kelvin or Celsius)
\* or drives the 4-20 mA output again.
C18_FaultSuppressesOutput ==
    [][ (/\ g_temp.probe_status # PROBE_STATUS_OK
         /\ step' \in {"TempStep", "CommDone", "LcdStep", "OutStep"}) =>
            (/\ g_temp'.temperature_K = g_temp.temperature_K
             /\ g_temp'.temperature_C = g_temp.temperature_C
             /\ dac_log' = <<>>) ]_vars

\* C19: after initialisation and whatever commands follow, the live selector (the one
\* the status response reports), the source selected in the excitation hardware and
\* the selector of the record in memory are equal.
C19_OneSelector ==
    pc # "boot" =>
        (/\ g_temp.current_src = g_param.current_source
         /\ dac.current_source = g_param.current_source)

\* C20: after initialisation and whatever commands follow, the 4 mA and 20 mA
\* temperatures the output mapper computes with are the set-points of the record in
\* memory.
C20_SpansFollowRecord ==
    pc # "boot" =>
        (/\ g_output.temp_4mA = g_param.temp_4mA
         /\ g_output.temp_20mA = g_param.temp_20mA)

\* r (hundredths of mA) is 4 + n / d * 16 mA limited to 4..20 mA, to the nearest
\* hundredth; n and d are T - T_low and T_high - T_low, d # 0
IsMapped(r, n, d) ==
    IF n * d <= 0 THEN r = 400
    ELSE IF Abs(n) >= Abs(d) THEN r = 2000
    ELSE r >= 400 /\ r <= 2000 /\ 2 * Abs((r - 400) * d - 1600 * n) <= Abs(d)

\* the numbers of a call of calc_current: the temperature, the two set-points
CalcT == call.args[1]
CalcLow == FloatToNum(g_output.temp_4mA)
CalcHigh == FloatToNum(g_output.temp_20mA)
CalcOfNumbers ==
    call.fn = "APP_Output_CalcCurrent" /\ ~IsNaN(CalcT) /\ ~IsNaN(CalcLow) /\ ~IsNaN(CalcHigh)

\* what calc_current returns for every temperature and every pair of set-points
CalcAsFormula ==
    CalcOfNumbers =>
        IF CalcHigh = CalcLow THEN call.out = <<1200>>
        ELSE IsMapped(call.out[1], CalcT - CalcLow, CalcHigh - CalcLow)

\* C21 (as the code has it): calc_current(T) is 4 + (T - T_low) / (T_high - T_low) * 16
\* limited to [4, 20] for every temperature and every pair of different set-points,
\* inverted spans included, and exactly 12 when the set-points are equal; with
\* T_low = -200 and T_high = 100 it is 4 at -200, 20 at 100 and 12 at -50.
C21_CalcCurrent ==
    /\ CalcAsFormula
    /\ (CalcOfNumbers /\ CalcLow = -20000 /\ CalcHigh = 10000) =>
          /\ CalcT = -20000 => call.out = <<400>>
          /\ CalcT = 10000 => call.out = <<2000>>
          /\ CalcT = -5000 => call.out = <<1200>>

\* calc_current(-50) has just returned 12 mA for the span -200..100
C21_Witness ==
    /\ step = "CalcCall" /\ call.fn = "APP_Output_CalcCurrent"
    /\ g_output.temp_4mA = F_MINUS_200 /\ g_output.temp_20mA = F_HUNDRED
    /\ call.args = <<-5000>> /\ call.out = <<1200>>

\* C21 as claimed: the same, with 10 mA at -50 for the span -200..100.
C21_CalcCurrentTenAtMinus50 ==
    /\ CalcAsFormula
    /\ (CalcOfNumbers /\ CalcLow = -20000 /\ CalcHigh = 10000) =>
          /\ CalcT = -20000 => call.out = <<400>>
          /\ CalcT = 10000 => call.out = <<2000>>
          /\ CalcT = -5000 => call.out = <<1000>>

\* 4 mA <= x <= 20 mA
WithinLoop(x) == ~IsNaN(x) /\ x >= OUTPUT_MIN_CURRENT /\ x <= OUTPUT_MAX_CURRENT

\* C22: after initialisation and any sequence of update_current, set_current and
\* set-point calls, the output value the mapper holds and the value driven to the
\* 4-20 mA hardware lie in [4, 20] mA.
C22_OutputWithinLoop ==
    /\ WithinLoop(g_output.current_mA)
    /\ WithinLoop(dac.output_current_mA)
    /\ \A i \in 1..Len(dac_log) : WithinLoop(dac_log[i])

\* the three ways a table sector fails verification
FailsVerification(t) ==
    \/ t.magic # <<84, 66, 76, 0>>
    \/ t.point_count = 0
    \/ t.point_count > 4871

LookupCalled == call.fn = "APP_Temp_TableLookup"

\* point data a sector could hold behind its header
PointImages == { ValidTable.points, WavyTable.points, SixPointTable.points }

\* C23: when the table fails verification (wrong magic, no points, or more
\* than 4871 points) the lookup returns 0 for every voltage, and it returns 0
\* whatever the points of the sector are: no point is read
C23_LookupSentinel ==
    (LookupCalled /\ FailsVerification(table)) =>
        /\ call.out = <<0>>
        /\ \A pts \in PointImages :
             APP_Temp_TableLookup([table EXCEPT !.points = pts], call.args[1]) = 0

\* a lookup of 75 mV in a sector with a wrong magic, whose points would give 5
C23_Witness ==
    /\ LookupCalled /\ step = "LookupCall"
    /\ table = BadMagicTable
    /\ call.args = <<7500>> /\ call.out = <<0>>
    /\ APP_Temp_TableLookup(ExampleTable, 7500) = 500

\* the points the header counts, numbered from 1
Volt(t, i) == t.points[i].voltage
Temp(t, i) == t.points[i].temperature

Verified(t) == ~FailsVerification(t)

StrictlyDescending(t) ==
    \A i \in 1..(t.point_count - 1) : Volt(t, i) > Volt(t, i + 1)

\* r is the value at v of the line through points i and i + 1, to the nearest
\* hundredth
OnLine(t, i, v, r) ==
    2 * Abs((r - Temp(t, i)) * (Volt(t, i + 1) - Volt(t, i))
            - (v - Volt(t, i)) * (Temp(t, i + 1) - Temp(t, i)))
        <= Abs(Volt(t, i + 1) - Volt(t, i))

Between(r, a, b) == (a <= r /\ r <= b) \/ (b <= r /\ r <= a)

\* the pairs of adjacent points that bracket v
Brackets(t, v) ==
    { i \in 1..(t.point_count - 1) : Volt(t, i) >= v /\ v > Volt(t, i + 1) }

LookupIsRight(t, v, r) ==
    LET n == t.point_count
    IN  IF v >= Volt(t, 1) THEN r = Temp(t, 1)
        ELSE IF v <= Volt(t, n) THEN r = Temp(t, n)
        ELSE /\ Cardinality(Brackets(t, v)) = 1
             /\ \A i \in Brackets(t, v) :
                  /\ TableSearch(t.points, v, 0, n - 1) = <<i - 1, i>>
                  /\ OnLine(t, i, v, r)
                  /\ Between(r, Temp(t, i), Temp(t, i + 1))

TempsNonDecreasing(t) ==
    \A i \in 1..(t.point_count - 1) : Temp(t, i) <= Temp(t, i + 1)

\* two lookups in a row: the earlier voltage and result, then the later ones
TwoLookups == LookupCalled /\ call.before # <<>>

Classified(v) ==
    IF v > 300000 THEN "open"
    ELSE IF v < 1000 THEN "short"
    ELSE IF v > 250000 \/ v < 10000 THEN "range"
    ELSE "ok"

StatusName(status) ==
    CASE status = PROBE_STATUS_OK -> "ok"
      [] status = PROBE_STATUS_OPEN -> "open"
      [] status = PROBE_STATUS_SHORT -> "short"
      [] status = PROBE_STATUS_RANGE_ERR -> "range"
      [] OTHER -> "none"

\* process() is called in the Filtering phase
Filters == step' = "TempStep" /\ g_temp.running # 0 /\ g_temp.state = "FILTERING"

\* C26: every Filtering step sets the probe status from the filtered voltage
\* it has just computed, whatever the status was: open above 3000 mV, else
\* short below 10 mV, else out of range above 2500 mV or below 100 mV, else ok;
\* exactly 3000 and exactly 10 are out of range, exactly 2500 and exactly 100
\* are ok
C26_ProbeClassified ==
    [][Filters =>
         /\ StatusName(g_temp'.probe_status) = Classified(g_temp'.filtered_voltage)
         /\ g_temp'.filtered_voltage \in {300000, 1000} =>
                g_temp'.probe_status = PROBE_STATUS_RANGE_ERR
         /\ g_temp'.filtered_voltage \in {250000, 10000} =>
                g_temp'.probe_status = PROBE_STATUS_OK
         /\ g_temp'.filtered_voltage = 300001 => g_temp'.probe_status = PROBE_STATUS_OPEN
         /\ g_temp'.filtered_voltage = 999 => g_temp'.probe_status = PROBE_STATUS_SHORT]_vars

\* the second cycle has filtered: the first median was that of an open probe,
\* the filtered voltage is back in range and the status is ok again
C26_Witness ==
    /\ step = "TempStep" /\ g_temp.state = "CALCULATING"
    /\ filter_count = 2 /\ filter_buffer[1] = 300001
    /\ g_temp.filtered_voltage = 150500
    /\ g_temp.probe_status = PROBE_STATUS_OK

\* process() is called in the phase named, while running
Processes(phase) == step' = "TempStep" /\ g_temp.running # 0 /\ g_temp.state = phase

\* C27: a step that processes the Outputting phase adds one to the sample
\* counter, with the probe in order or not; initialisation sets it to zero;
\* no other step changes it, a start or a stop command included
C27_CounterCountsCycles ==
    [][IF step' = "Boot" THEN g_temp'.sample_count = 0
       ELSE IF Processes("OUTPUTTING")
       THEN g_temp'.sample_count = g_temp.sample_count + 1
       ELSE g_temp'.sample_count = g_temp.sample_count]_vars

\* the first cycle has been counted although the probe is open, after the
\* host had stopped and started the acquisition
C27_Witness ==
    /\ step = "TempStep" /\ g_temp.state = "SAMPLING"
    /\ g_temp.sample_count = 1
    /\ g_temp.probe_status = PROBE_STATUS_OPEN
    /\ host_sends = 2 /\ Len(acq.unfiltered) > 0

\* the phase after a process() call made while running in phase p
NextPhases(p) ==
    CASE p = "SAMPLING" -> {"SAMPLING", "FILTERING"}
      [] p = "FILTERING" -> {"CALCULATING"}
      [] p = "CALCULATING" -> {"OUTPUTTING"}
      [] p = "OUTPUTTING" -> {"SAMPLING"}
      [] OTHER -> {}

\* C28: a process() call made while running takes Sampling to Sampling or
\* Filtering, Filtering to Calculating, Calculating to Outputting and
\* Outputting to Sampling; a process() call made while stopped leaves the
\* phase alone; any other change of the phase is initialisation, a start
\* command (to Sampling) or a stop command (to Idle)
C28_PhaseOrder ==
    [][IF step' = "TempStep"
       THEN IF g_temp.running # 0
            THEN g_temp'.state \in NextPhases(g_temp.state)
            ELSE g_temp'.state = g_temp.state
       ELSE \/ g_temp'.state = g_temp.state
            \/ step' = "Boot"
            \/ Runs(CMD_START_ACQ) /\ g_temp'.state = "SAMPLING"
            \/ Runs(CMD_STOP_ACQ) /\ g_temp'.state = "IDLE"]_vars

\* the second cycle has reached Outputting after a stop and a start
C28_Witness ==
    /\ step = "TempStep" /\ g_temp.state = "OUTPUTTING"
    /\ g_temp.sample_count = 1 /\ host_sends = 2

\* the ring, slot by slot, is the list q
RingIs(q) ==
    /\ Len(q) = TEMP_SAMPLE_COUNT
    /\ \A i \in 1..TEMP_SAMPLE_COUNT : sample_buffer[i] = q[i]

\* C29: whenever the pipeline is in the Filtering phase, the ring holds five
\* samples, and they are the samples read since the pipeline last entered
\* Sampling (by a start or from Outputting), in the order they were read
C29_FilteringOnFullFreshRing ==
    g_temp.state = "FILTERING" => (Len(acq.fresh) = 5 /\ RingIs(acq.fresh))

\* Filtering is reached after a sampling run that a start command interrupted:
\* more samples were read than the ring holds, and the ring holds the last five
C29_Witness ==
    /\ g_temp.state = "FILTERING" /\ g_temp.running # 0 /\ step = "TempStep"
    /\ Len(acq.unfiltered) > TEMP_SAMPLE_COUNT
    /\ RingIs(acq.fresh)

\* C30: a sample that was read and that no Filtering phase has yet found in
\* the ring is still in the ring, so that a later Filtering phase finds it
C30_NoSampleDropped ==
    \A i \in 1..Len(acq.unfiltered) : InRing(Cur, acq.unfiltered[i])

\* C31: after an initialisation in which the calibration table failed
\* verification, every call of process() from the main loop, the first one
\* included, sets the status of the display to the system error
C31_ErrorSurfaced ==
    [][(step' = "TempStep" /\ APP_Temp_TableVerify(table) # 0) =>
          \E i \in 1..Len(lcd_log') : lcd_log'[i] = "System Error!"]_vars

\* the state of the acquisition: phase, probe status, voltages, temperatures
\* and sample counter, the sample ring and the moving-average window
AcqState ==
    <<g_temp, sample_buffer, sample_index, filter_buffer, filter_index, filter_count,
      filter_sum>>

\* C32: while the acquisition is stopped the phase is Idle, and a call of
\* process() or the tail of the main loop leaves the whole acquisition state
\* unchanged, starts no conversion, reads no sample and does not drive the
\* analog output
C32_StoppedIsInert ==
    /\ []((pc # "boot" /\ g_temp.running = 0) => g_temp.state = "IDLE")
    /\ [][(g_temp.running = 0 /\ step' \in {"TempStep", "OutStep"}) =>
            /\ AcqState' = AcqState
            /\ adc_log' = <<>> /\ adc_ready' = adc_ready /\ adc_started' = adc_started
            /\ dac_log' = <<>> /\ dac' = dac /\ g_output' = g_output]_vars

\* a pass of the main loop has ended while stopped: a stop command came
\* after a sample had been read, and the output was not driven
C32_Witness ==
    /\ step = "OutStep" /\ g_temp.running = 0 /\ g_temp.state = "IDLE"
    /\ host_last.cmd = CMD_STOP_ACQ
    /\ Len(acq.unfiltered) > 0 /\ sample_index > 0
    /\ dac_log = <<>>

\* the number of bytes stored and not yet returned, from the two indices
RingUnread == (ring.rx_head - ring.rx_tail + 512) % 512

\* C33: under every interleaving of the callback with the statements of
\* SVC_USB_ReadByte, head and tail stay in [0, 512); the ring holds the bytes
\* stored and not yet returned, at most 511 of them, oldest first from the
\* tail on, none overwritten by a byte that arrived when the ring was full;
\* and the byte ReadByte loads and returns is the oldest of them, so that the
\* bytes returned are the bytes stored, in order and each once
C33_RingIsQueue ==
    /\ ring.rx_head \in 0..511 /\ ring.rx_tail \in 0..511
    /\ RingUnread = ring.stored - ring.returned
    /\ RingUnread <= 511
    /\ \A k \in 0..(RingUnread - 1) :
         ring.rx_buffer[(ring.rx_tail + k) % 512] = ByteOf(ring.returned + k)
    /\ ring.at \in {"load", "advance"} => RingUnread > 0
    /\ ring.at = "advance" => ring.data = ByteOf(ring.returned)
    /\ (ring.at = "out" /\ ring.ret >= 0) => ring.ret = ByteOf(ring.returned - 1)
    /\ (ring.at = "out" /\ ring.ret = -1 /\ step = "ReadTest") => ring.stored = ring.returned

\* the ring was filled and a byte was dropped; the reader has returned bytes,
\* the head has wrapped round behind the tail, and the callback has come
\* between the load and the store of a read
C33_Witness ==
    /\ ring.dropped > 0 /\ ring.returned > 0
    /\ ring.rx_head < ring.rx_tail
    /\ ring.at = "advance" /\ step = "RxInterrupt"
    /\ ring.stored > 512

\* the set-points of the output mapper, and the display data other than the
\* output current
SetPoints == <<g_output.temp_4mA, g_output.temp_20mA>>
Shown == <<lcd.temperature, lcd.voltage, lcd.current_src, lcd.status>>

\* the output current is what the set-points in force give for temperature T
MappedNow(r, T) ==
    LET low == FloatToNum(g_output.temp_4mA)
        high == FloatToNum(g_output.temp_20mA)
    IN  (~IsNaN(T) /\ ~IsNaN(low) /\ ~IsNaN(high)) =>
            IF high = low THEN r = 1200 ELSE IsMapped(r, T - low, high - low)

\* C34: in every pass of the main loop the display refresh follows the end of
\* protocol processing, which has emptied the byte queue, and the output
\* refresh follows the display refresh; nothing between the dispatch of a
\* command and the refreshes changes the set-points or the display data it
\* wrote; the display refresh sends the display data as the commands left
\* them, and the output refresh drives the current that the set-points as the
\* commands left them give
C34_ProtocolBeforeRefresh ==
    [][/\ step' = "CommDone" => (step \in {"TempStep", "CommByte", "HostSend"} /\ rxq = <<>>)
       /\ step' = "LcdStep" => (step = "CommDone" /\ rxq = <<>>)
       /\ step' = "OutStep" => step = "LcdStep"
       /\ step' \in {"CommDone", "LcdStep", "OutStep"} =>
             (SetPoints' = SetPoints /\ Shown' = Shown)
       /\ step' = "LcdStep" => (panel' = panel \/ panel' = lcd)
       /\ (step' = "OutStep" /\ g_temp.running # 0) =>
             /\ MappedNow(g_output'.current_mA, g_temp.temperature_C)
             /\ dac'.output_current_mA = g_output'.current_mA
             /\ lcd'.output_current = g_output'.current_mA]_vars

\* a pass ends in which the host moved the 4 mA set-point from -200 to 0 with
\* the temperature at -23.15: the output refresh of that pass drove 4 mA
C34_Witness ==
    /\ step = "OutStep" /\ g_temp.running # 0
    /\ host_last.cmd = CMD_SET_4MA_TEMP /\ host_last.data = F_ZERO
    /\ Len(disp_since) = 1
    /\ g_output.temp_4mA = F_ZERO /\ g_output.temp_20mA = F_HUNDRED
    /\ g_temp.temperature_C = -2315
    /\ g_output.current_mA = 400 /\ dac_log = <<400>>

\* the parser takes a byte in its Tail state
TakesTailByte == step' = "CommByte" /\ parse_state = "TAIL"

\* C35: the byte taken in the Tail state puts the parser back in Head,
\* whatever it is; when it is not 0x55 nothing is dispatched, nothing is sent,
\* no hardware is touched, and neither the device state nor the frame buffer
\* nor the payload index changes
C35_BadTailDropsFrame ==
    [][TakesTailByte =>
         /\ parse_state' = "HEAD"
         /\ Head(rxq) # 85 =>
              /\ dispatched' = <<>> /\ tx' = <<>> /\ NoHardwareOps'
              /\ DeviceState' = DeviceState
              /\ rx_frame' = rx_frame /\ data_index' = data_index
              /\ rxq' = Tail(rxq)]_vars

\* a frame whose tail byte is wrong has been taken to its end: the parser is
\* in Head with the whole frame behind it and nothing was answered
C35_Witness ==
    /\ step = "CommByte" /\ parse_state = "HEAD"
    /\ host_last.kind = "badtail" /\ rxq = <<>>
    /\ raw = host_last.bytes /\ raw[Len(raw)] # 85
    /\ tx = <<>> /\ disp_since = <<>>

\* C36: a call of process() in the Sampling phase while the conversion is not
\* ready changes nothing of the acquisition state (phase, sample index, ring,
\* voltages, temperatures, counter, window), starts no conversion and reads no
\* sample
C36_NotReadyPollsAgain ==
    [][(Processes("SAMPLING") /\ ~adc_ready) =>
          /\ AcqState' = AcqState
          /\ adc_log' = <<>>
          /\ adc_started' = adc_started /\ adc_ready' = adc_ready
          /\ dac' = dac /\ g_output' = g_output]_vars

\* process() has just polled a conversion that was started and is not ready,
\* with two samples already in the ring
C36_Witness ==
    /\ step = "TempStep" /\ g_temp.running # 0 /\ g_temp.state = "SAMPLING"
    /\ adc_started /\ ~adc_ready /\ adc_log = <<>>
    /\ sample_index = 2

\* C37: with process() called again and again and every started conversion
\* becoming ready in the end, a running pipeline whose converter still answers
\* reaches Outputting, and the sample counter goes up, by one each time and
\* only there, until it has counted every cycle the converter answered; once
\* the converter answers no more, the pipeline stays in Sampling for ever,
\* running, waiting for the conversion it started
C37_CyclesProgress ==
    /\ (pc # "boot" /\ g_temp.sample_count < MaxLiveCycles) ~> (g_temp.state = "OUTPUTTING")
    /\ [][(step' # "Boot" /\ g_temp'.sample_count # g_temp.sample_count) =>
            /\ g_temp.state = "OUTPUTTING"
            /\ g_temp'.sample_count = g_temp.sample_count + 1]_vars
    /\ <>[](/\ g_temp.sample_count = MaxLiveCycles /\ g_temp.running # 0
            /\ g_temp.state = "SAMPLING" /\ adc_started /\ ~adc_ready)

\* the third cycle has been counted and the pipeline waits in Sampling for a
\* conversion that does not become ready
C37_Witness ==
    /\ g_temp.sample_count = MaxLiveCycles /\ g_temp.running # 0
    /\ g_temp.state = "SAMPLING" /\ adc_started /\ ~adc_ready
    /\ step = "TempStep" /\ adc_log = <<>>

(***************************************************************************)
(* The moving average in the arithmetic of the target: float is IEEE 754   *)
(* binary32, every operation rounds to nearest, ties to even.  A value     *)
(* that is not negative is written as its bit pattern, which is an integer *)
(* below 2^31: biased exponent times 2^23 plus fraction, and 0 is 0.0f     *)
(***************************************************************************)
Two23 == Pow2(23)
Two24 == Pow2(24)
Two26 == Pow2(26)
Two27 == Pow2(27)

F32Mant(x) == IF x = 0 THEN 0 ELSE Two23 + (x % Two23)
F32Exp(x) == x \div Two23
F32Pack(m, e) == e * Two23 + (m - Two23)

\* a shift to the right that keeps in the lowest bit whether anything was lost
ShiftSticky(x, d) ==
    LET p == Pow2(d)
        q == x \div p
    IN  IF x % p = 0 \/ q % 2 = 1 THEN q ELSE q + 1

\* a significand with three more bits, rounded to 24 bits
F32Round(S, e) ==
    LET q == S \div 8
        r == S % 8
        q1 == IF r > 4 \/ (r = 4 /\ q % 2 = 1) THEN q + 1 ELSE q
    IN  IF q1 = Two24 THEN F32Pack(Two23, e + 1) ELSE F32Pack(q1, e)

F32AddOrdered(a, b) ==
    LET d == F32Exp(a) - F32Exp(b)
        S == F32Mant(a) * 8 + ShiftSticky(F32Mant(b) * 8, d)
    IN  IF d > 25 THEN a
        ELSE IF S >= Two27 THEN F32Round(ShiftSticky(S, 1), F32Exp(a) + 1)
        ELSE F32Round(S, F32Exp(a))

\* a + b in float
F32Add(a, b) ==
    IF a = 0 THEN b
    ELSE IF b = 0 THEN a
    ELSE IF a < b THEN F32AddOrdered(b, a)
    ELSE F32AddOrdered(a, b)

RECURSIVE F32Normalize(_, _)
F32Normalize(D, e) == IF D >= Two26 THEN F32Round(D, e) ELSE F32Normalize(2 * D, e - 1)

F32SubOrdered(a, b) ==
    LET d == F32Exp(a) - F32Exp(b)
    IN  IF d > 25 THEN a
        ELSE F32Normalize(F32Mant(a) * 8 - ShiftSticky(F32Mant(b) * 8, d), F32Exp(a))

\* a - b in float; a negative number stands for a negative result
F32Sub(a, b) ==
    IF b = 0 THEN a
    ELSE IF a = b THEN 0
    ELSE IF a < b THEN 0 - F32SubOrdered(b, a)
    ELSE F32SubOrdered(a, b)

RECURSIVE F32Excess(_, _)
F32Excess(q, t) == IF q \div Pow2(t) < Two24 THEN t ELSE F32Excess(q, t + 1)

\* a / k in float, k the filter count converted to float, 1..TEMP_FILTER_SIZE
F32DivInt(a, k) ==
    IF a = 0 THEN 0
    ELSE LET q == (F32Mant(a) * 32) \div k
             rem == (F32Mant(a) * 32) % k
             t == F32Excess(q, 1)
             m == q \div Pow2(t)
             low == q % Pow2(t)
             half == Pow2(t - 1)
             m1 == IF low > half \/ (low = half /\ (rem > 0 \/ m % 2 = 1))
                   THEN m + 1 ELSE m
             e == F32Exp(a) - 5 + t
         IN  IF m1 = Two24 THEN F32Pack(Two23, e + 1) ELSE F32Pack(m1, e)

\* MovingAvgFilter on floats: the state after the call
MovingAvgBinary32(s, value) ==
    [s EXCEPT !.filter_sum = F32Add(F32Sub(@, s.filter_buffer[s.filter_index + 1]), value),
              !.filter_buffer[s.filter_index + 1] = value,
              !.filter_index = (@ + 1) % TEMP_FILTER_SIZE,
              !.filter_count = IF @ < TEMP_FILTER_SIZE THEN @ + 1 ELSE @]

\* medians the filter is fed, in millivolts: 612.3f, 1500.0f, 1234.567f
MV_612_3 == 1142494003
MV_1500 == 1153138688
MV_1234_567 == 1150964261
FilterInputs == {MV_612_3, MV_1500, MV_1234_567}

\* the filter called on its own after App_Init, with stop() and start()
\* between the calls.  The record of the call keeps the medians fed since
\* the initialisation; the first MaxVaried medians are any of FilterInputs,
\* the later ones repeat the first
MaxFed == 20
MaxVaried == 2
Fed == IF "fed" \in DOMAIN call THEN call.fed ELSE <<>>
NextMedians == IF Len(Fed) < MaxVaried THEN FilterInputs ELSE {Fed[1]}

InitFilter == InitWith({<<ErasedImage, ValidTable, 150000>>})

FilterCall ==
    /\ pc = "temp" /\ Len(Fed) < MaxFed
    /\ \E value \in NextMedians :
         \E s \in {MovingAvgBinary32(Begin, value)} :
             /\ Commit(s)
             /\ call' = [fn |-> "MovingAvgFilter", args |-> <<value>>,
                         out |-> <<F32DivInt(s.filter_sum, s.filter_count)>>,
                         fed |-> Append(Fed, value)]
    /\ step' = "FilterCall"
    /\ UNCHANGED <<pc, Ghosts, disp_since, saved, acq, ring>>

StopCall ==
    /\ pc = "temp" /\ g_temp.running # 0
    /\ Commit(APP_Temp_Stop(Begin))
    /\ call' = [fn |-> "APP_Temp_Stop", args |-> <<>>, out |-> <<>>, fed |-> Fed]
    /\ step' = "StopCall"
    /\ UNCHANGED <<pc, Ghosts, disp_since, saved, acq, ring>>

StartCall ==
    /\ pc = "temp" /\ g_temp.running = 0
    /\ Commit(APP_Temp_Start(Begin))
    /\ call' = [fn |-> "APP_Temp_Start", args |-> <<>>, out |-> <<>>, fed |-> Fed]
    /\ step' = "StartCall"
    /\ UNCHANGED <<pc, Ghosts, disp_since, saved, acq, ring>>

NextFilter ==
    \/ Boot
    \/ FilterCall
    \/ StopCall
    \/ StartCall

SpecFilter == InitFilter /\ [][NextFilter]_vars

\* the value of a float as a multiple of the unit in the last place of the
\* smallest median fed; -1 for a float that is no such multiple
BaseExp == F32Exp(MV_612_3)
Scaled(x) ==
    IF x = 0 THEN 0
    ELSE IF x < 0 \/ F32Exp(x) < BaseExp THEN 0 - 1
    ELSE F32Mant(x) * Pow2(F32Exp(x) - BaseExp)

RECURSIVE WindowSum(_, _)
WindowSum(buf, i) == IF i = 0 THEN 0 ELSE Scaled(buf[i]) + WindowSum(buf, i - 1)

Least(a, b) == IF a < b THEN a ELSE b

\* the window holds the last min(k, 16) medians fed, each where the filter
\* index stood when it came, and zeros elsewhere
WindowHolds(fed, buf) ==
    /\ \A i \in 1..Len(fed) :
          i > Len(fed) - TEMP_FILTER_SIZE => buf[((i - 1) % TEMP_FILTER_SIZE) + 1] = fed[i]
    /\ \A j \in 1..TEMP_FILTER_SIZE : j > Len(fed) => buf[j] = 0

\* C38: fed its k-th median since the initialisation, the moving average
\* divides by min(k, 16), its running sum equals the sum of its window, the
\* window holds the last min(k, 16) medians whatever stop() and start() did in
\* between, the value returned is that sum divided by min(k, 16), and a
\* constant stream v gives v at every step
C38_MovingAverage ==
    pc # "boot" =>
        /\ filter_count = Least(Len(Fed), TEMP_FILTER_SIZE)
        /\ WindowHolds(Fed, filter_buffer)
        /\ Scaled(filter_sum) = WindowSum(filter_buffer, TEMP_FILTER_SIZE)
        /\ call.fn = "MovingAvgFilter" =>
              /\ call.out[1] = F32DivInt(filter_sum, Least(Len(Fed), TEMP_FILTER_SIZE))
              /\ (\A i \in 1..Len(Fed) : Fed[i] = Fed[1]) => call.out[1] = Fed[1]

\* the parts of C38 that do not depend on rounding: the divisor, the window
\* and its survival of stop() and start()
FilterWindowKept ==
    pc # "boot" =>
        /\ filter_count = Least(Len(Fed), TEMP_FILTER_SIZE)
        /\ WindowHolds(Fed, filter_buffer)

\* a constant stream of 612.3f gives another float at the tenth median
ConstantStreamDrifts ==
    /\ call.fn = "MovingAvgFilter" /\ Len(Fed) = 10
    /\ \A i \in 1..10 : Fed[i] = MV_612_3
    /\ call.out[1] = MV_612_3 - 1

\* the parser called on its own after App_Init, one byte per call.  The
\* bytes are chosen against the parser: any of a few outside a frame and for
\* the command and the length, the right one or a wrong one for the CRC and
\* the tail; the payload byte is a frame head or a frame tail, by its place,
\* since PARSE_DATA does not look at it
ParseLens == {0, 1, 2, 255}
DataByte(i) == IF i % 2 = 0 THEN FRAME_HEAD ELSE FRAME_TAIL
ParseBytes(s) ==
    CASE s.parse_state = "HEAD" -> {FRAME_HEAD, FRAME_TAIL, 0}
      [] s.parse_state = "CMD" -> {CMD_GET_DEVICE_ID, FRAME_HEAD}
      [] s.parse_state = "LEN" -> ParseLens
      [] s.parse_state = "DATA" -> {DataByte(s.data_index)}
      [] s.parse_state = "CRC_L" -> {APP_Comm_CRC16(CrcBuf(s.rx_frame)) % 256, FRAME_TAIL}
      [] s.parse_state = "CRC_H" -> {APP_Comm_CRC16(CrcBuf(s.rx_frame)) \div 256, FRAME_HEAD}
      [] s.parse_state = "TAIL" -> {FRAME_TAIL, FRAME_HEAD}

ParseCall ==
    /\ pc = "temp"
    /\ \E byte \in ParseBytes(Cur) :
         /\ Commit(ParseByte(Begin, byte, NoFault))
         /\ call' = [fn |-> "ParseByte", args |-> <<byte>>, out |-> <<>>]
    /\ step' = "ParseCall"
    /\ UNCHANGED <<pc, Ghosts, disp_since, saved, acq, ring>>

NextParse ==
    \/ Boot
    \/ ParseCall

SpecParse == InitFilter /\ [][NextParse]_vars

\* the frame the parser is inside: the bytes taken since it left PARSE_HEAD
\* are one frame head and what followed it, and the fields of rx_frame are
\* those bytes
OnePartialFrame ==
    /\ Len(raw) >= 1 /\ raw[1] = FRAME_HEAD /\ rx_frame.head = FRAME_HEAD
    /\ Len(raw) >= 2 => rx_frame.cmd = raw[2]
    /\ Len(raw) >= 3 =>
          /\ rx_frame.len = raw[3]
          /\ Len(raw) <= 3 + rx_frame.len + 2
          /\ \A i \in 0..(rx_frame.len - 1) : 4 + i <= Len(raw) => rx_frame.data[i] = raw[4 + i]
    /\ (parse_state = "CMD") = (Len(raw) = 1)
    /\ (parse_state = "LEN") = (Len(raw) = 2)
    /\ parse_state = "DATA" => Len(raw) = 3 + data_index

\* C39: when a payload byte is about to be stored the write index is below
\* the length byte and inside the 256-byte buffer, the index never exceeds
\* 255, the parser is inside at most one frame, and 260 bytes after the frame
\* head at the latest it is back in PARSE_HEAD
C39_ParserBounded ==
    /\ data_index \in 0..255
    /\ parse_state = "DATA" =>
          /\ data_index < rx_frame.len
          /\ data_index \in DOMAIN rx_frame.data
          /\ Cardinality(DOMAIN rx_frame.data) = MAX_DATA_LEN
    /\ parse_state # "HEAD" =>
          /\ OnePartialFrame
          /\ Len(raw) <= 260

\* the parser waits for the tail of a frame of 255 payload bytes, 260 bytes
\* after it left PARSE_HEAD, the last payload byte stored at index 254
C39_Witness ==
    /\ step = "ParseCall" /\ parse_state = "TAIL"
    /\ rx_frame.len = 255 /\ data_index = 255 /\ Len(raw) = 260
    /\ rx_frame.data[254] = DataByte(254)

\* the converter's operations of one step taken in order, from a state where
\* a conversion start was (started) or was not outstanding: every read finds
\* a start made since the read before it
RECURSIVE ReadsFollowStarts(_, _, _)
ReadsFollowStarts(log, i, started) ==
    IF i > Len(log) THEN TRUE
    ELSE IF log[i] = "read" THEN started /\ ReadsFollowStarts(log, i + 1, FALSE)
    ELSE ReadsFollowStarts(log, i + 1, TRUE)

\* whether a start is outstanding after those operations
RECURSIVE StartOutstanding(_, _, _)
StartOutstanding(log, i, started) ==
    IF i > Len(log) THEN started
    ELSE StartOutstanding(log, i + 1, log[i] = "start")

\* C40: every read of the converter comes after a conversion start made
\* since the read before it, or since start(), and a running pipeline in the
\* Sampling phase has a started conversion to wait for
C40_ReadAfterStart ==
    /\ [](pc # "boot" /\ g_temp.running # 0 /\ g_temp.state = "SAMPLING" => adc_started)
    /\ [][/\ ReadsFollowStarts(adc_log', 1, adc_started)
          /\ adc_started' = StartOutstanding(adc_log', 1, adc_started)]_vars

\* the pipeline, stopped and started again by the host, has read a sample of
\* its second cycle and started the next conversion
C40_Witness ==
    /\ step = "TempStep" /\ adc_log = <<"read", "start">>
    /\ g_temp.sample_count >= 1 /\ host_sends >= 2
    /\ g_temp.running # 0 /\ g_temp.state = "SAMPLING" /\ adc_started
=============================================================================
